---- MODULE Spec2Model ----
(***************************************************************************)
(* Model of the detection -> tracking -> temporal-classification core of   *)
(* backend/app/ai (the package main.py and video/processor.py import):     *)
(* ViolenceClassifier (ai/classifier.py), DeepSORTTracker (ai/tracker.py), *)
(* YOLODetector (ai/detector.py) and AIPipeline (ai/pipeline.py).          *)
(*                                                                         *)
(* Scores and confidences are integers in hundredths (0.80 is 80).         *)
(* A raised Python exception is an outcome with status "raised".           *)
(***************************************************************************)
EXTENDS Integers, Sequences, FiniteSets, TLC

VARIABLES
    frame_buffer,               \* ViolenceClassifier.frame_buffer (deque, oldest first)
    session_open,               \* ViolenceClassifier.session is not None
    added,                      \* history: frames passed to add_frame since construction / last clear
    cls_result,                 \* outcome of the last ViolenceClassifier.classify() call
    use_deepsort,               \* DeepSORTTracker.use_deepsort
    tracks,                     \* DeepSORTTracker.tracks (id -> track)
    next_id,                    \* DeepSORTTracker.next_id
    max_age,                    \* DeepSORTTracker.max_age
    trk_result,                 \* outcome of the last DeepSORTTracker.update() call
    misses,                     \* history: per greedy track id, consecutive update() calls without a match
    reported,                   \* history: ids that appeared in a map update() returned
    steady,                     \* history: update() calls so far, all with the same single detection
    det_log,                    \* history: outcome of the last YOLODetector.detect() call
    frame_count,                \* AIPipeline.frame_count
    last_classification_frame,  \* AIPipeline.last_classification_frame
    violence_classification,    \* AIPipeline.violence_classification (cached classification)
    result,                     \* outcome of the last AIPipeline.process_frame() call
    invoked,                    \* history: component operations the last process_frame() call ran
    cls_log,                    \* history: the classify() runs of the pipeline (frame index, failed)
    op,                         \* history: the last operation called and its arguments
    det_session_open,           \* YOLODetector.session is not None
    violence_threshold,         \* VideoProcessor.violence_threshold
    close_log,                  \* outcome of the last AIPipeline.close() call
    box_result,                 \* outcome of the last box-arithmetic call
    pc,                         \* position of the process_frame coroutine (stepwise runs)
    co,                         \* state of the coroutine objects of the current process_frame call
    is_running,                 \* VideoProcessor.is_running
    processing_task,            \* VideoProcessor.processing_task (0 is None, else a task number)
    loops,                      \* the _process_video_stream tasks created so far: position and camera
    stopping,                   \* the tasks a suspended stop() call is awaiting
    last_incident_time,         \* VideoProcessor.last_incident_time (-1 is None)
    clock,                      \* time.time(), in seconds since the processor was built
    incidents,                  \* history: the incidents the loop went on to register
    calls                       \* the classify() / process_frame() calls suspended in the inference await

clsVars  == <<frame_buffer, session_open, added, cls_result>>
trkVars  == <<use_deepsort, tracks, next_id, max_age, trk_result,
              misses, reported, steady>>
pipeVars == <<frame_count, last_classification_frame, violence_classification,
              result, invoked, cls_log, det_log>>
vars     == <<frame_buffer, session_open, added, cls_result,
              use_deepsort, tracks, next_id, max_age, trk_result,
              misses, reported, steady, det_log,
              frame_count, last_classification_frame, violence_classification,
              result, invoked, cls_log, op,
              det_session_open, violence_threshold, close_log, box_result, pc, co,
              is_running, processing_task, loops, stopping, last_incident_time,
              clock, incidents, calls>>
vpVars   == <<is_running, processing_task, loops, stopping, last_incident_time,
              clock, incidents>>
restVars == <<det_session_open, violence_threshold, close_log, box_result, pc, co>>
auxVars  == <<restVars, vpVars, calls>>

(***************************************************************************)
(* Program constants                                                       *)
(***************************************************************************)
num_frames == 8
VIOLENCE_FRAME_INTERVAL == 4
VIOLENCE_THRESHOLD == 80
DEEPSORT_MAX_AGE == 30
AMBIGUOUS_MARGIN == 10
class_names == <<"no_violencia", "amenazante_ambigua", "violencia_directa">>

(***************************************************************************)
(* Bounds of the model                                                     *)
(***************************************************************************)
MaxFrames == 12         \* non-empty frames fed to one pipeline
MaxAdds   == 9          \* add_frame calls between two clear_buffer calls
MaxTrackId == 3         \* ids the greedy tracker may hand out
MaxDets   == 2          \* detections in one frame
SteadyFrames == 8       \* length of a run of identical single-detection frames that is counted
MaxLoops == 9           \* _process_video_stream tasks created in one run
MaxAlive == 2           \* of them, tasks that have not finished at the same time
MaxStops == 1           \* stop() calls waiting for their task at the same time
MaxSteppedFrames == 9    \* non-empty frames of a stream whose calls are followed step by step
MaxCalls == 2           \* calls suspended at an await at the same time
MaxClosing == 1         \* close() calls among them
MaxClock == 15          \* seconds of model time
MaxCoord == 2           \* largest coordinate, width and height of the boxes of the grid

(***************************************************************************)
(* Inputs                                                                  *)
(***************************************************************************)
NoneFrame  == "None"                    \* frame is None
EmptyFrame == "Empty"                   \* frame.size == 0
ImageFrames == {"imgA", "imgB"}         \* non-empty images
PipeFrames  == {"imgA"}                 \* non-empty images fed to the pipeline
NoClassification == [present |-> FALSE] \* violence_classification is None

\* The classifier session's output after softmax: a distribution over the
\* three classes, in hundredths.
ScoreDists == { <<100, 0, 0>>, <<10, 0, 90>>, <<25, 0, 75>>, <<5, 90, 5>>,
                <<20, 0, 80>>, <<6, 89, 5>> }
\* What happens inside the try block of classify(): preprocess_frames raises,
\* session.run raises, or session.run returns; msg is str(e).
PreprocessRaise == [raises |-> "preprocess", msg |-> "preprocess failed", scores |-> <<0, 0, 0>>]
ModelRaise == [raises |-> "inference", msg |-> "inference failed", scores |-> <<0, 0, 0>>]
ModelOk(s) == [raises |-> "no", msg |-> "", scores |-> s]
NotRun == [raises |-> "no", msg |-> "", scores |-> <<0, 0, 0>>]
\* what the part of classify() before its await does (preprocess_frames
\* raises or not), and what the worker thread's session.run does after it
PreOutcomes == {PreprocessRaise, NotRun}
ModelOutcomes == {ModelRaise} \cup { ModelOk(s) : s \in ScoreDists }
\* outcomes of the classifier's session.run fed to the pipeline
PipeModelOutcomes == { ModelRaise, ModelOk(<<100, 0, 0>>), ModelOk(<<10, 0, 90>>) }

(***************************************************************************)
(* ViolenceClassifier                                                      *)
(***************************************************************************)
\* deque(maxlen=num_frames).append(frame.copy())
DequeAppendNoEvict(buf, f) == Append(buf, f)
DequeAppend(buf, f) ==
    IF Len(buf) >= num_frames THEN Append(Tail(buf), f) ELSE Append(buf, f)

\* np.argmax(scores): index (0-based) of the first maximum
ArgMax(s) ==
    CHOOSE i \in 0..2 : /\ \A j \in 0..2 : s[j + 1] <= s[i + 1]
                        /\ \A j \in 0..(i - 1) : s[j + 1] < s[i + 1]

ViolenceDetectedNoMargin(class_id, score, threshold) ==
    \/ (class_id = 2 /\ score >= threshold)
    \/ (class_id = 1 /\ score >= threshold)
ViolenceDetected(class_id, score, threshold) ==
    \/ (class_id = 2 /\ score >= threshold)
    \/ (class_id = 1 /\ score >= threshold + AMBIGUOUS_MARGIN)

DefaultClassification ==
    [present |-> TRUE, class_id |-> 0, class_name |-> "no_violencia", score |-> 0,
     violence_detected |-> FALSE, error |-> ""]

ErrorClassification(msg) ==
    [present |-> TRUE, class_id |-> 0, class_name |-> "no_violencia", score |-> 0,
     violence_detected |-> FALSE, error |-> msg]

SuccessClassification(scores) ==
    LET class_id == ArgMax(scores)
        score == scores[class_id + 1]
    IN [present |-> TRUE, class_id |-> class_id, class_name |-> class_names[class_id + 1],
        score |-> score,
        violence_detected |-> ViolenceDetected(class_id, score, VIOLENCE_THRESHOLD),
        error |-> ""]

\* the `len(self.frame_buffer) < self.num_frames` guard of classify()
BufferTooShortNever(buf) == FALSE
BufferTooShort(buf) == Len(buf) < num_frames

\* the try/except of classify(): what a failure inside the try block becomes
OnClassifyErrorPropagate(msg) ==
    [status |-> "raised", value |-> ErrorClassification(msg)]
OnClassifyError(msg) ==
    [status |-> "returned", value |-> ErrorClassification(msg)]

\* classify() from the return of `await asyncio.to_thread(self.session.run, ..)`
\* on: m is what session.run did in the worker thread, n the length the
\* buffer had when classify() tested it
ClassifyReturn(n, m) ==
    IF m.raises = "inference"
    THEN OnClassifyError(m.msg) @@ [model_invoked |-> TRUE, buffer_len |-> n]
    ELSE [status |-> "returned", value |-> SuccessClassification(m.scores),
          model_invoked |-> TRUE, buffer_len |-> n]

\* classify() reaches its await: the buffer is full, preprocess_frames did
\* not raise and self.session.run could be looked up.  `open` is FALSE after
\* close() set session to None.
ClassifySuspends(buf, open, m) ==
    ~BufferTooShort(buf) /\ m.raises # "preprocess" /\ open

\* classify(): outcome, whether session.run was invoked, and len(frame_buffer),
\* in the order of the code: the length test, the copy and preprocess_frames,
\* the lookup of self.session.run, the inference
Classify(buf, open, m) ==
    IF BufferTooShort(buf)
    THEN [status |-> "returned", value |-> DefaultClassification,
          model_invoked |-> FALSE, buffer_len |-> Len(buf)]
    ELSE IF m.raises = "preprocess"
    THEN OnClassifyError(m.msg) @@ [model_invoked |-> FALSE, buffer_len |-> Len(buf)]
    ELSE IF ~open
    THEN OnClassifyError("'NoneType' object has no attribute 'run'") @@
         [model_invoked |-> FALSE, buffer_len |-> Len(buf)]
    ELSE ClassifyReturn(Len(buf), m)

NoCall == [status |-> "none"]
Op(name, args) == [name |-> name, args |-> args]

(***************************************************************************)
(* DeepSORTTracker                                                         *)
(***************************************************************************)
Max2(a, b) == IF a >= b THEN a ELSE b
Min2(a, b) == IF a <= b THEN a ELSE b

\* Boxes are <<x, y, w, h>>.  Detections are dicts; `keys` is the set of keys
\* the dict has (a detection without 'bbox' makes det['bbox'] raise KeyError).
BoxA == <<0, 0, 2, 2>>
BoxB == <<1, 0, 2, 2>>      \* IoU(BoxA, BoxB) = 2/6
BoxC == <<4, 4, 2, 2>>      \* disjoint from BoxA and BoxB
BoxZ == <<0, 0, 0, 0>>      \* zero-area box, as postprocess() emits after clipping
Boxes == {BoxA, BoxB, BoxC, BoxZ}
Confs == {90}
Det(b, c) == [keys |-> {"bbox", "confidence", "class_id", "class_name"},
              bbox |-> b, confidence |-> c]
BadDet(c) == [keys |-> {"confidence"}, bbox |-> BoxZ, confidence |-> c]
HasKey(det, k) == k \in det.keys

NoFeature == "None"
Track(b, c) == [bbox |-> b, feature |-> NoFeature, last_seen |-> 0, age |-> 0,
                confidence |-> c]
EmptyTracks == [i \in {} |-> Track(BoxZ, 0)]

\* _calculate_iou: the quotient intersection/union as <<num, den>>, after the
\* clamp to [0, 1]; raises is the ZeroDivisionError of a zero union.
_calculate_iou(bbox1, bbox2) ==
    LET x1 == bbox1[1]  y1 == bbox1[2]  w1 == bbox1[3]  h1 == bbox1[4]
        x2 == bbox2[1]  y2 == bbox2[2]  w2 == bbox2[3]  h2 == bbox2[4]
        x_left   == Max2(x1, x2)
        y_top    == Max2(y1, y2)
        x_right  == Min2(x1 + w1, x2 + w2)
        y_bottom == Min2(y1 + h1, y2 + h2)
        intersection_area == (x_right - x_left) * (y_bottom - y_top)
        union == w1 * h1 + w2 * h2 - intersection_area
    IN IF x_right < x_left \/ y_bottom < y_top
       THEN [raises |-> FALSE, num |-> 0, den |-> 1]
       ELSE IF union = 0
       THEN [raises |-> TRUE, num |-> 0, den |-> 1]
       ELSE LET n == IF union < 0 THEN 0 - intersection_area ELSE intersection_area
                d == IF union < 0 THEN 0 - union ELSE union
            IN IF n > d THEN [raises |-> FALSE, num |-> 1, den |-> 1]
               ELSE IF n < 0 THEN [raises |-> FALSE, num |-> 0, den |-> 1]
               ELSE [raises |-> FALSE, num |-> n, den |-> d]

\* comparisons of quotients with positive denominators
RatGt(a, b) == a.num * b.den > b.num * a.den
RatZero == [raises |-> FALSE, num |-> 0, den |-> 1]
iou_threshold_one == [raises |-> FALSE, num |-> 1, den |-> 1]
iou_threshold == [raises |-> FALSE, num |-> 3, den |-> 10]

\* first step of _assign_detections_to_tracks_simple: age every track, delete
\* the ones whose age exceeds max_age
AgeTracksKeepAll(trks, maxAge) ==
    [id \in DOMAIN trks |-> [trks[id] EXCEPT !.age = @ + 1]]
AgeTracksEarly(trks, maxAge) ==
    LET keep == { id \in DOMAIN trks : trks[id].age + 1 < maxAge }
    IN [id \in keep |-> [trks[id] EXCEPT !.age = @ + 1]]
AgeTracksNoIncrement(trks, maxAge) ==
    LET keep == { id \in DOMAIN trks : trks[id].age + 1 <= maxAge }
    IN [id \in keep |-> trks[id]]
AgeTracks(trks, maxAge) ==
    LET keep == { id \in DOMAIN trks : trks[id].age + 1 <= maxAge }
    IN [id \in keep |-> [trks[id] EXCEPT !.age = @ + 1]]

\* the loops that create one track per detection, in detection order; a
\* detection without 'bbox' raises KeyError after the earlier ones were added
CreateTracksFirstOnly(trks, nid, detections, j, skip) ==
    LET js == { k \in j..Len(detections) : k \notin skip }
    IN IF js = {} THEN [raised |-> FALSE, tracks |-> trks, next_id |-> nid]
       ELSE LET k == CHOOSE x \in js : \A y \in js : x <= y
            IN [raised |-> FALSE,
                tracks |-> [id \in (DOMAIN trks) \cup {nid} |->
                              IF id = nid
                              THEN Track(detections[k].bbox, detections[k].confidence)
                              ELSE trks[id]],
                next_id |-> nid + 1]
RECURSIVE CreateTracks(_, _, _, _, _)
CreateTracks(trks, nid, detections, j, skip) ==
    IF j > Len(detections) THEN [raised |-> FALSE, tracks |-> trks, next_id |-> nid]
    ELSE IF j \in skip THEN CreateTracks(trks, nid, detections, j + 1, skip)
    ELSE IF ~HasKey(detections[j], "bbox")
    THEN [raised |-> TRUE, tracks |-> trks, next_id |-> nid]
    ELSE CreateTracks(
            [id \in (DOMAIN trks) \cup {nid} |->
                IF id = nid THEN Track(detections[j].bbox, detections[j].confidence)
                ELSE trks[id]],
            nid + 1, detections, j + 1, skip)

\* track_ids = list(self.tracks.keys()): ids are inserted in increasing
\* order, so the i-th key is the i-th smallest id
RECURSIVE SortedIds(_)
SortedIds(S) ==
    IF S = {} THEN << >>
    ELSE LET m == CHOOSE x \in S : \A y \in S : x <= y
         IN <<m>> \o SortedIds(S \ {m})

\* iou_matrix.argmax() with np.unravel_index: first maximum in row-major order
MatrixArgMaxFirstAbove(M, nT, nD) ==
    LET above == { q \in (1..nT) \X (1..nD) : RatGt(M[q], iou_threshold) }
    IN IF above = {} THEN <<1, 1>>
       ELSE CHOOSE p \in above :
               \A q \in above : p[1] < q[1] \/ (p[1] = q[1] /\ p[2] <= q[2])
MatrixArgMax(M, nT, nD) ==
    CHOOSE p \in (1..nT) \X (1..nD) :
        \A q \in (1..nT) \X (1..nD) :
            /\ ~RatGt(M[q], M[p])
            /\ ((q[1] < p[1] \/ (q[1] = p[1] /\ q[2] < p[2])) => RatGt(M[p], M[q]))

\* the greedy matching loop: the committed <<i, j>> pairs in commit order
RECURSIVE GreedyMatch(_, _, _, _)
GreedyMatch(M, nT, nD, matched) ==
    IF nT * nD = 0 THEN matched
    ELSE LET p == MatrixArgMax(M, nT, nD)
         IN IF RatGt(M[p], iou_threshold)
            THEN GreedyMatch(
                    [q \in (1..nT) \X (1..nD) |->
                        IF q[1] = p[1] \/ q[2] = p[2] THEN RatZero ELSE M[q]],
                    nT, nD, Append(matched, p))
            ELSE matched

\* _assign_detections_to_tracks_simple: the tracker state it leaves behind,
\* whether it raised, and the ids of the tracks it matched, in commit order
_assign_detections_to_tracks_simple(trks0, nid, maxAge, detections) ==
    LET trks == AgeTracks(trks0, maxAge)
        unmatched == [matched |-> << >>]
    IN IF Len(detections) = 0
       THEN [raised |-> FALSE, tracks |-> trks, next_id |-> nid] @@ unmatched
       ELSE IF DOMAIN trks = {}
       THEN CreateTracks(trks, nid, detections, 1, {}) @@ unmatched
       ELSE
         LET track_ids == SortedIds(DOMAIN trks)
             nT == Len(track_ids)
             nD == Len(detections)
             cells == (1..nT) \X (1..nD)
         IN IF \E j \in 1..nD : ~HasKey(detections[j], "bbox")
            THEN [raised |-> TRUE, tracks |-> trks, next_id |-> nid] @@ unmatched
            ELSE
              LET M == [q \in cells |->
                          _calculate_iou(trks[track_ids[q[1]]].bbox, detections[q[2]].bbox)]
              IN IF \E q \in cells : M[q].raises
                 THEN [raised |-> TRUE, tracks |-> trks, next_id |-> nid] @@ unmatched
                 ELSE
                   LET matched == GreedyMatch(M, nT, nD, << >>)
                       detOf(i) == CHOOSE j \in 1..nD :
                                      \E k \in 1..Len(matched) : matched[k] = <<i, j>>
                       isMatchedT(i) == \E k \in 1..Len(matched) : matched[k][1] = i
                       matchedD == { matched[k][2] : k \in 1..Len(matched) }
                       updated == [id \in DOMAIN trks |->
                           LET i == CHOOSE i \in 1..nT : track_ids[i] = id
                           IN IF isMatchedT(i)
                              THEN [trks[id] EXCEPT !.bbox = detections[detOf(i)].bbox,
                                                    !.last_seen = 0,
                                                    !.age = 0,
                                                    !.confidence = detections[detOf(i)].confidence]
                              ELSE trks[id]]
                   IN CreateTracks(updated, nid, detections, 1, matchedD) @@
                      [matched |-> [k \in 1..Len(matched) |-> track_ids[matched[k][1]]]]

\* Strategy A: the external DeepSort.update_tracks is opaque.  Its outcome is
\* an input: it raises, or it reports no confirmed track, or it reports one
\* confirmed track per detection (track_id = position of the detection).
DsOutcomes == {"raise", "none", "all"}

\* adapter of update(): (x, y, w, h) -> [x1, y1, x2, y2] -> (x, y, w, h)
ToLtrb(bbox) == <<bbox[1], bbox[2], bbox[1] + bbox[3], bbox[2] + bbox[4]>>
FromLtrbNoOrigin(ltrb) == <<ltrb[1], ltrb[2], ltrb[3], ltrb[4]>>
FromLtrb(ltrb) == <<ltrb[1], ltrb[2], ltrb[3] - ltrb[1], ltrb[4] - ltrb[2]>>

DeepSortResult(detections, ds) ==
    IF ds = "all"
    THEN [id \in 1..Len(detections) |->
            [bbox |-> FromLtrb(ToLtrb(detections[id].bbox)), feature |-> "embedding",
             last_seen |-> 0, age |-> 0, confidence |-> detections[id].confidence]]
    ELSE EmptyTracks

\* the except branch of update() when use_deepsort was set: downgrade, reset,
\* reprocess the detections with the greedy strategy (outside any try block)
FallbackKeepStrategy(maxAge, detections) ==
    LET r == _assign_detections_to_tracks_simple(EmptyTracks, 1, maxAge, detections)
    IN [status |-> IF r.raised THEN "raised" ELSE "returned",
        value |-> r.tracks,
        use_deepsort |-> TRUE, tracks |-> r.tracks, next_id |-> r.next_id,
        fell_back |-> TRUE, matched |-> r.matched]
FallbackNoReprocess(maxAge, detections) ==
    [status |-> "returned", value |-> EmptyTracks,
     use_deepsort |-> FALSE, tracks |-> EmptyTracks, next_id |-> 1,
     fell_back |-> TRUE, matched |-> << >>]
FallbackReprocess(maxAge, detections) ==
    LET r == _assign_detections_to_tracks_simple(EmptyTracks, 1, maxAge, detections)
    IN [status |-> IF r.raised THEN "raised" ELSE "returned",
        value |-> r.tracks,
        use_deepsort |-> FALSE, tracks |-> r.tracks, next_id |-> r.next_id,
        fell_back |-> TRUE, matched |-> r.matched]

\* DeepSORTTracker.update: outcome and tracker state after the call;
\* ds_invoked: deep_sort.update_tracks was called, fell_back: the except
\* branch downgraded the strategy
Update(useDs, trks, nid, maxAge, image, detections, ds) ==
    IF useDs
    THEN LET bad == \E j \in 1..Len(detections) : ~HasKey(detections[j], "bbox")
         IN IF bad \/ ds = "raise"
            THEN FallbackReprocess(maxAge, detections) @@ [ds_invoked |-> ~bad]
            ELSE [status |-> "returned", value |-> DeepSortResult(detections, ds),
                  use_deepsort |-> TRUE, tracks |-> trks, next_id |-> nid,
                  fell_back |-> FALSE, matched |-> << >>,
                  ds_invoked |-> TRUE]
    ELSE LET r == _assign_detections_to_tracks_simple(trks, nid, maxAge, detections)
         IN [status |-> "returned", value |-> r.tracks,
             use_deepsort |-> FALSE, tracks |-> r.tracks, next_id |-> r.next_id,
             fell_back |-> FALSE, matched |-> r.matched,
             ds_invoked |-> FALSE]

\* what a caller observes of one update() call
UpdateOutcome(u, detections) ==
    [status |-> u.status, value |-> u.value,
     ds_invoked |-> u.ds_invoked, fell_back |-> u.fell_back, matched |-> u.matched]

\* the history variables of the tracker after one update() call
NoSteady == [ok |-> FALSE, n |-> 0, box |-> BoxZ, greedy |-> FALSE]
TrackerHistory(u, detections) ==
    /\ misses' =
          IF u.use_deepsort THEN misses
          ELSE LET base == IF u.fell_back THEN << >> ELSE misses
               IN [id \in 1..(u.next_id - 1) |->
                     IF id \in DOMAIN base /\ (\A k \in 1..Len(u.matched) : u.matched[k] # id)
                     THEN Min2(base[id] + 1, max_age + 1)
                     ELSE 0]
    /\ reported' = reported \cup (IF u.status = "returned" THEN DOMAIN u.value ELSE {})
    /\ steady' =
          IF ~steady.ok THEN steady
          ELSE IF /\ Len(detections) = 1
                  /\ HasKey(detections[1], "bbox")
                  /\ (steady.n = 0 \/ detections[1].bbox = steady.box)
          THEN [ok |-> TRUE, n |-> Min2(steady.n + 1, SteadyFrames),
                box |-> detections[1].bbox,
                greedy |-> steady.greedy /\ ~u.use_deepsort]
          ELSE NoSteady

(***************************************************************************)
(* YOLODetector                                                            *)
(***************************************************************************)
YOLO_CONF_THRESHOLD == 70
ImageShape == <<6, 6>>          \* (orig_h, orig_w); model input has the same size

\* postprocess(): confidence filter, then clip to the image bounds
ClipBox(b) ==
    LET orig_h == ImageShape[1]
        orig_w == ImageShape[2]
        x_orig == Max2(0, Min2(b[1], orig_w))
        y_orig == Max2(0, Min2(b[2], orig_h))
        w_orig == Max2(0, Min2(b[3], orig_w - x_orig))
        h_orig == Max2(0, Min2(b[4], orig_h - y_orig))
    IN <<x_orig, y_orig, w_orig, h_orig>>

RECURSIVE postprocess(_)
postprocess(predictions) ==
    IF Len(predictions) = 0 THEN << >>
    ELSE LET p == Head(predictions)
         IN IF p.conf >= YOLO_CONF_THRESHOLD
            THEN <<Det(ClipBox(p.bbox), p.conf)>> \o postprocess(Tail(predictions))
            ELSE postprocess(Tail(predictions))

\* detect(): any exception in preprocessing / inference / postprocessing
\* yields the empty list
DetectKeepPartial(image, d) == postprocess(d.predictions)
Detect(image, d) == IF d.raises THEN << >> ELSE postprocess(d.predictions)

Pred(b, c) == [bbox |-> b, conf |-> c]
DetRaise == [raises |-> TRUE, predictions |-> << >>]
DetOk(ps) == [raises |-> FALSE, predictions |-> ps]
\* postprocess() raises after it has decoded one detection
DetRaiseLate == [raises |-> TRUE, predictions |-> <<Pred(BoxA, 90)>>]
\* outcomes of the detector's session.run fed to the pipeline
PipeDetOutcomes == { DetRaise, DetRaiseLate, DetOk(<< >>), DetOk(<<Pred(BoxA, 90)>>) }
PipeDsOutcomes == {"raise", "all"}

(***************************************************************************)
(* AIPipeline                                                              *)
(***************************************************************************)
\* instance attributes the constructors and methods of ai/ ever assign
DetectorAttrs == {"model_path", "conf_threshold", "input_width", "input_height",
                  "device", "session_options", "session", "input_name",
                  "output_names", "input_shape"}
TrackerAttrs == {"max_age", "device", "deep_sort", "use_deepsort", "tracks", "next_id"}
ClassifierAttrs == {"model_path", "threshold", "num_frames", "frame_width",
                    "frame_height", "device", "frame_buffer", "last_inference_time",
                    "session_options", "session", "input_name", "output_names",
                    "input_shape", "class_names"}

\* the f-string of the logger.debug call of process_frame is evaluated on
\* every call; an attribute that does not exist raises AttributeError
DebugLogRaises ==
    \/ "last_inference_time" \notin DetectorAttrs
    \/ "last_tracking_time" \notin TrackerAttrs
    \/ "last_inference_time" \notin ClassifierAttrs

\* `frame is None or frame.size == 0`
IsEmptyFrameNoneOnly(frame) == frame = NoneFrame
IsEmptyFrame(frame) == frame = NoneFrame \/ frame = EmptyFrame

\* should_classify
ShouldClassifyAlways(fc, lastc, vc) == TRUE
ShouldClassifyFirstOnly(fc, lastc, vc) == ~vc.present
ShouldClassify(fc, lastc, vc) ==
    fc - lastc >= VIOLENCE_FRAME_INTERVAL \/ ~vc.present

\* persons list built from the track map, in key order
Persons(trks) ==
    LET ids == SortedIds(DOMAIN trks)
    IN [i \in 1..Len(ids) |->
          [id |-> ids[i], bbox |-> trks[ids[i]].bbox, confidence |-> trks[ids[i]].confidence]]

EmptyFrameResult(fc) ==
    [status |-> "returned", frame_id |-> fc, persons |-> << >>,
     violence_detected |-> FALSE,
     fields |-> {"frame_id", "persons", "violence_detected"}]

FrameResult(fc, trks, vc) ==
    [status |-> "returned", frame_id |-> fc, persons |-> Persons(trks),
     violence_detected |-> IF vc.present THEN vc.violence_detected ELSE FALSE,
     violence_score |-> IF vc.present THEN vc.score ELSE 0,
     violence_class |-> IF vc.present THEN vc.class_name ELSE "no_violencia",
     fields |-> {"frame_id", "persons", "violence_detected", "violence_score",
                 "violence_class", "fps", "processing_time_ms"}]

Raised(e) == [status |-> "raised", exception |-> e]

\* A call suspended in `await asyncio.to_thread(self.session.run, ...)`
\* (classifier.py:101): classify() called directly, or process_frame waiting
\* in `await classification_task`.  The record holds what the continuation
\* has in its local variables: the frame, the `tracks` dict update() returned
\* (the tracker's own dict, `alias`, or a dict of its own, `map`), and as
\* history the caller, the frame index at entry and the length the buffer had
\* when classify() tested it.
SuspendedCall(name, caller, frame, fc, n, alias, map) ==
    [name |-> name, caller |-> caller, frame |-> frame, launched |-> fc,
     buffer_len |-> n, alias |-> alias, map |-> map]
Remove(seq, k) == SubSeq(seq, 1, k - 1) \o SubSeq(seq, k + 1, Len(seq))
\* the dict a suspended call's local `tracks` refers to
LocalTracks(call) == IF call.alias THEN tracks ELSE call.map
\* `self.tracks = {}` in the tracker's close() binds the tracker to a new
\* dict: the calls that hold the old one keep it as it is.  (The same
\* statement in update()'s fallback runs while the embedding strategy is on,
\* when no call holds the tracker's dict.)
Rebound(cs, old) ==
    [k \in 1..Len(cs) |->
        IF cs[k].alias THEN [cs[k] EXCEPT !.alias = FALSE, !.map = old] ELSE cs[k]]

\* AIPipeline.process_frame from its entry to the point where it gives the
\* event loop back: its return, its exception, or the await inside
\* classify().  d, ds and pre are what the detector's session.run,
\* deep_sort.update_tracks and the classifier's preprocess_frames do in this
\* call; a component that is not used takes the outcome that stands for that.
ProcessFrameBody(caller, frame, d, ds, pre) ==
    IF IsEmptyFrame(frame)
    THEN /\ d = DetRaise /\ ds = "unused" /\ pre = NotRun
         /\ result' = EmptyFrameResult(frame_count)
         /\ invoked' = << >>
         /\ op' = Op("process_frame", <<frame, caller>>)
         /\ UNCHANGED <<clsVars, trkVars, frame_count, last_classification_frame,
                        violence_classification, cls_log, det_log, restVars, calls>>
    ELSE /\ frame_count < MaxFrames
         /\ det_session_open \/ d = DetRaise
         /\ use_deepsort <=> ds # "unused"
         /\ \E fc \in {frame_count + 1}, buf \in {DequeAppend(frame_buffer, frame)} :
            \E launch \in {ShouldClassify(fc, last_classification_frame,
                                          violence_classification)
                           /\ Len(buf) >= num_frames} :
            /\ launch \/ pre = NotRun
            /\ \E u \in {Update(use_deepsort, tracks, next_id, max_age, frame,
                                Detect(frame, d), ds)} :
               \E tracked \in {u.status = "returned"} :
               \E suspends \in {tracked /\ launch
                                /\ ClassifySuspends(buf, session_open, pre)} :
               \E c \in {Classify(buf, session_open, pre)} :
               \E classified \in {tracked /\ launch /\ ~suspends /\ c.status = "returned"} :
               \E vc \in {IF classified THEN c.value ELSE violence_classification} :
               /\ u.next_id <= MaxTrackId + 1
               /\ suspends => Len(calls) < MaxCalls
               /\ frame_count' = fc
               /\ frame_buffer' = buf
               /\ added' = Append(added, frame)
               /\ UNCHANGED session_open
               /\ use_deepsort' = u.use_deepsort
               /\ tracks' = u.tracks
               /\ next_id' = u.next_id
               /\ UNCHANGED <<max_age, restVars>>
               /\ trk_result' = UpdateOutcome(u, Detect(frame, d))
               /\ TrackerHistory(u, Detect(frame, d))
               /\ det_log' = [status |-> "returned", failed |-> d.raises,
                              detections |-> Detect(frame, d), frame |-> fc]
               /\ invoked' = <<"add_frame", "detect", "update">> \o
                             (IF tracked /\ launch /\ ~suspends THEN <<"classify">> ELSE << >>)
               /\ IF suspends
                  THEN /\ calls' = Append(calls,
                              SuspendedCall("process_frame", caller, frame, fc, Len(buf),
                                            ~u.use_deepsort,
                                            IF u.use_deepsort THEN u.value ELSE EmptyTracks))
                       /\ op' = Op("process_frame_await", <<frame, caller>>)
                       /\ UNCHANGED <<cls_result, cls_log, violence_classification,
                                      last_classification_frame, result>>
                  ELSE /\ UNCHANGED calls
                       /\ op' = Op("process_frame", <<frame, caller>>)
                       /\ cls_result' = IF tracked /\ launch THEN c ELSE cls_result
                       /\ cls_log' = IF tracked /\ launch
                                     THEN Append(cls_log, [frame |-> fc, launched |-> fc,
                                                           failed |-> c.value.error # ""])
                                     ELSE cls_log
                       /\ violence_classification' = vc
                       /\ last_classification_frame' =
                              IF classified THEN fc ELSE last_classification_frame
                       /\ result' = IF ~tracked THEN Raised("KeyError")
                                    ELSE IF launch /\ c.status = "raised" THEN Raised("Exception")
                                    ELSE IF DebugLogRaises THEN Raised("AttributeError")
                                    ELSE FrameResult(fc, u.value, vc)

\* process_frame from the return of `await classification_task` to its end:
\* the classification and the frame index are stored, the result is built
\* with the frame_count of that moment.  m is what session.run did.
ProcessFrameResumeBody(k, m) ==
    /\ k \in 1..Len(calls)
    /\ calls[k].name = "process_frame"
    /\ \E c \in {ClassifyReturn(calls[k].buffer_len, m)} :
          /\ cls_result' = c
          /\ cls_log' = Append(cls_log, [frame |-> frame_count,
                                         launched |-> calls[k].launched,
                                         failed |-> c.value.error # ""])
          /\ violence_classification' =
                 IF c.status = "returned" THEN c.value ELSE violence_classification
          /\ last_classification_frame' =
                 IF c.status = "returned" THEN frame_count ELSE last_classification_frame
          /\ result' = IF c.status = "raised" THEN Raised("Exception")
                       ELSE IF DebugLogRaises THEN Raised("AttributeError")
                       ELSE FrameResult(frame_count, LocalTracks(calls[k]), c.value)
    /\ invoked' = <<"add_frame", "detect", "update", "classify">>
    /\ op' = Op("process_frame_resume", <<calls[k].frame, calls[k].caller>>)
    /\ calls' = Remove(calls, k)
    /\ UNCHANGED <<frame_buffer, session_open, added, trkVars, frame_count, det_log, restVars>>

\* process_frame called on the pipeline by a caller outside the model
ProcessFrame(frame, d, ds, pre) ==
    ProcessFrameBody(0, frame, d, ds, pre) /\ UNCHANGED vpVars
ProcessFrameResume(k, m) ==
    ProcessFrameResumeBody(k, m) /\ UNCHANGED vpVars

\* ViolenceClassifier.add_frame / clear_buffer / classify called directly
AddFrame(frame) ==
    /\ Len(added) < MaxAdds
    /\ frame_buffer' = DequeAppend(frame_buffer, frame)
    /\ added' = Append(added, frame)
    /\ op' = Op("add_frame", <<frame>>)
    /\ UNCHANGED <<session_open, cls_result, trkVars, pipeVars, auxVars>>

ClearBuffer ==
    /\ frame_buffer' = << >>
    /\ added' = << >>
    /\ op' = Op("clear_buffer", << >>)
    /\ UNCHANGED <<session_open, cls_result, trkVars, pipeVars, auxVars>>

\* a classify() that takes the oldest frame out of the buffer
ClassifyCallConsuming(pre) ==
    /\ IF ClassifySuspends(frame_buffer, session_open, pre)
       THEN /\ Len(calls) < MaxCalls
            /\ calls' = Append(calls, SuspendedCall("classify", 0, NoneFrame, 0,
                                                    Len(frame_buffer), FALSE, EmptyTracks))
            /\ op' = Op("classify_await", <<pre>>)
            /\ UNCHANGED cls_result
       ELSE /\ cls_result' = Classify(frame_buffer, session_open, pre)
            /\ op' = Op("classify", <<pre>>)
            /\ UNCHANGED calls
    /\ frame_buffer' = IF frame_buffer = << >> THEN << >> ELSE Tail(frame_buffer)
    /\ UNCHANGED <<session_open, added, trkVars, pipeVars, restVars, vpVars>>
\* classify() called directly, up to its return or to its await: it reads a
\* copy of the buffer (list(self.frame_buffer))
ClassifyCall(pre) ==
    /\ IF ClassifySuspends(frame_buffer, session_open, pre)
       THEN /\ Len(calls) < MaxCalls
            /\ calls' = Append(calls, SuspendedCall("classify", 0, NoneFrame, 0,
                                                    Len(frame_buffer), FALSE, EmptyTracks))
            /\ op' = Op("classify_await", <<pre>>)
            /\ UNCHANGED cls_result
       ELSE /\ cls_result' = Classify(frame_buffer, session_open, pre)
            /\ op' = Op("classify", <<pre>>)
            /\ UNCHANGED calls
    /\ UNCHANGED <<frame_buffer, session_open, added, trkVars, pipeVars, restVars, vpVars>>

\* the worker thread has finished: classify() goes on from its await and returns
ClassifyResume(k, m) ==
    /\ k \in 1..Len(calls)
    /\ calls[k].name = "classify"
    /\ cls_result' = ClassifyReturn(calls[k].buffer_len, m)
    /\ calls' = Remove(calls, k)
    /\ op' = Op("classify", <<m>>)
    /\ UNCHANGED <<frame_buffer, session_open, added, trkVars, pipeVars, restVars, vpVars>>

\* ViolenceClassifier.close() called directly
ClassifierClose ==
    /\ session_open' = FALSE
    /\ frame_buffer' = << >>
    /\ added' = << >>
    /\ op' = Op("classifier_close", << >>)
    /\ UNCHANGED <<cls_result, trkVars, pipeVars, auxVars>>

\* DeepSORTTracker.update called directly
TrackerBoxes == {BoxA, BoxB, BoxZ}
TrackerDets == { Det(b, c) : b \in TrackerBoxes, c \in Confs } \cup { BadDet(c) : c \in Confs }
DetLists == UNION { [1..n -> TrackerDets] : n \in 0..MaxDets }
TrackerMaxAges == {1, 2}

UpdateCall(image, detections) ==
    \E ds \in (IF use_deepsort THEN DsOutcomes ELSE {"unused"}) :
    \E u \in {Update(use_deepsort, tracks, next_id, max_age, image, detections, ds)} :
       /\ u.next_id <= MaxTrackId + 1
       /\ use_deepsort' = u.use_deepsort
       /\ tracks' = u.tracks
       /\ next_id' = u.next_id
       /\ trk_result' = UpdateOutcome(u, detections)
       /\ TrackerHistory(u, detections)
       /\ op' = Op("update", <<Len(detections) = 0>>)
       /\ UNCHANGED <<max_age, clsVars, pipeVars, auxVars>>

\* AIPipeline.process_frame step by step, as the event loop runs it.  Calling
\* an `async def` only creates a coroutine object; its body runs when the
\* object is awaited, and process_frame wraps none of them in a task.
\* pc is the position of process_frame; co holds the state of the coroutine
\* objects of detector.detect, tracker.update and classifier.classify and
\* the call's local variables: the frame, the frame index at entry, the
\* exception that is on its way out, the `tracks` dict update() returned and
\* the length of the buffer classify() tested.
NoCoroutines == [detect |-> "none", update |-> "none", classify |-> "none",
                 frame |-> NoneFrame, launched |-> 0, exc |-> "",
                 alias |-> FALSE, map |-> EmptyTracks, buffer_len |-> 0]
extVars == <<det_session_open, violence_threshold, close_log, box_result, vpVars, calls>>
AsyncDetOutcomes == { DetRaise, DetOk(<<Pred(BoxA, 90)>>) }
AsyncModelOutcomes == { ModelRaise, ModelOk(<<10, 0, 90>>) }

\* entry of process_frame up to `detection_task = self.detector.detect(frame)`
AsyncBegin(frame) ==
    /\ pc = "idle"
    /\ ~IsEmptyFrame(frame)
    /\ frame_count < MaxSteppedFrames
    /\ frame_count' = frame_count + 1
    /\ co' = [NoCoroutines EXCEPT !.detect = "created", !.frame = frame,
                                  !.launched = frame_count + 1]
    /\ pc' = "add_frame"
    /\ op' = Op("process_frame_begin", <<frame>>)
    /\ invoked' = << >>
    /\ UNCHANGED <<clsVars, trkVars, last_classification_frame, violence_classification,
                   result, cls_log, det_log, extVars>>

\* `await self.classifier.add_frame(frame)`, the gate, and
\* `classification_task = self.classifier.classify()`
AsyncAddFrame ==
    /\ pc = "add_frame"
    /\ \E buf \in {DequeAppend(frame_buffer, co.frame)} :
       \E launch \in {ShouldClassify(frame_count, last_classification_frame,
                                     violence_classification)
                      /\ Len(buf) >= num_frames} :
          /\ frame_buffer' = buf
          /\ added' = Append(added, co.frame)
          /\ co' = [co EXCEPT !.classify = IF launch THEN "created" ELSE "none"]
    /\ invoked' = Append(invoked, "add_frame")
    /\ pc' = "await_detect"
    /\ UNCHANGED <<session_open, cls_result, trkVars, frame_count, last_classification_frame,
                   violence_classification, result, cls_log, det_log, op, extVars>>

\* `detections = await detection_task`: the body of detect() starts
AsyncDetectStart ==
    /\ pc = "await_detect"
    /\ co' = [co EXCEPT !.detect = "running"]
    /\ pc' = "in_detect"
    /\ UNCHANGED <<clsVars, trkVars, pipeVars, op, extVars>>

\* detect() returns its list
AsyncDetectDone(d) ==
    /\ pc = "in_detect"
    /\ (det_session_open \/ d = DetRaise)
    /\ det_log' = [status |-> "returned", failed |-> d.raises,
                   detections |-> Detect(co.frame, d), frame |-> frame_count]
    /\ invoked' = Append(invoked, "detect")
    /\ co' = [co EXCEPT !.detect = "done"]
    /\ pc' = "await_update"
    /\ UNCHANGED <<clsVars, trkVars, frame_count, last_classification_frame,
                   violence_classification, result, cls_log, op, extVars>>

\* `tracks = await self.tracker.update(frame, detections)`: the coroutine is
\* created with the list detect() returned and its body starts
AsyncUpdateStart ==
    /\ pc = "await_update"
    /\ co' = [co EXCEPT !.update = "running"]
    /\ pc' = "in_update"
    /\ UNCHANGED <<clsVars, trkVars, pipeVars, op, extVars>>

\* update() run on an empty list instead of the list detect() returned
AsyncUpdateDoneStale(ds) ==
    /\ pc = "in_update"
    /\ \E u \in {Update(use_deepsort, tracks, next_id, max_age, co.frame, << >>, ds)} :
          /\ u.next_id <= MaxTrackId + 1
          /\ use_deepsort' = u.use_deepsort
          /\ tracks' = u.tracks
          /\ next_id' = u.next_id
          /\ trk_result' = UpdateOutcome(u, << >>)
          /\ TrackerHistory(u, << >>)
          /\ pc' = IF u.status = "returned" /\ co.classify = "created"
                   THEN "await_classify" ELSE "finish"
          /\ co' = [co EXCEPT !.update = "done",
                              !.exc = IF u.status = "returned" THEN "" ELSE "KeyError",
                              !.alias = ~u.use_deepsort,
                              !.map = IF u.use_deepsort THEN u.value ELSE EmptyTracks]
    /\ invoked' = Append(invoked, "update")
    /\ UNCHANGED <<clsVars, max_age, frame_count, last_classification_frame,
                   violence_classification, result, cls_log, det_log, op, extVars>>
\* update() returns or raises
AsyncUpdateDone(ds) ==
    /\ pc = "in_update"
    /\ \E u \in {Update(use_deepsort, tracks, next_id, max_age, co.frame,
                         det_log.detections, ds)} :
          /\ u.next_id <= MaxTrackId + 1
          /\ use_deepsort' = u.use_deepsort
          /\ tracks' = u.tracks
          /\ next_id' = u.next_id
          /\ trk_result' = UpdateOutcome(u, det_log.detections)
          /\ TrackerHistory(u, det_log.detections)
          /\ pc' = IF u.status = "returned" /\ co.classify = "created"
                   THEN "await_classify" ELSE "finish"
          /\ co' = [co EXCEPT !.update = "done",
                              !.exc = IF u.status = "returned" THEN "" ELSE "KeyError",
                              !.alias = ~u.use_deepsort,
                              !.map = IF u.use_deepsort THEN u.value ELSE EmptyTracks]
    /\ invoked' = Append(invoked, "update")
    /\ UNCHANGED <<clsVars, max_age, frame_count, last_classification_frame,
                   violence_classification, result, cls_log, det_log, op, extVars>>

\* `classification = await classification_task`: the body of classify()
\* starts.  It returns at once (a short buffer, a failure of
\* preprocess_frames, a closed session), or it copies the buffer, hands
\* session.run to a worker thread and waits.
AsyncClassifyStart(pre) ==
    /\ pc = "await_classify"
    /\ IF ClassifySuspends(frame_buffer, session_open, pre)
       THEN /\ co' = [co EXCEPT !.classify = "running", !.buffer_len = Len(frame_buffer)]
            /\ pc' = "in_classify"
            /\ UNCHANGED <<cls_result, cls_log, violence_classification,
                           last_classification_frame, invoked>>
       ELSE /\ \E c \in {Classify(frame_buffer, session_open, pre)} :
                 /\ cls_result' = c
                 /\ cls_log' = Append(cls_log, [frame |-> frame_count,
                                                launched |-> frame_count,
                                                failed |-> c.value.error # ""])
                 /\ violence_classification' =
                        IF c.status = "returned" THEN c.value ELSE violence_classification
                 /\ last_classification_frame' =
                        IF c.status = "returned" THEN frame_count
                        ELSE last_classification_frame
                 /\ co' = [co EXCEPT !.classify = "done",
                                     !.exc = IF c.status = "returned" THEN "" ELSE "Exception"]
            /\ invoked' = Append(invoked, "classify")
            /\ pc' = "finish"
    /\ UNCHANGED <<frame_buffer, session_open, added, trkVars, frame_count, det_log,
                   result, op, extVars>>

\* the worker thread has finished: classify() returns and process_frame
\* stores the classification
AsyncClassifyDone(m) ==
    /\ pc = "in_classify"
    /\ \E c \in {ClassifyReturn(co.buffer_len, m)} :
          /\ cls_result' = c
          /\ cls_log' = Append(cls_log, [frame |-> frame_count,
                                         launched |-> co.launched,
                                         failed |-> c.value.error # ""])
          /\ violence_classification' =
                 IF c.status = "returned" THEN c.value ELSE violence_classification
          /\ last_classification_frame' =
                 IF c.status = "returned" THEN frame_count ELSE last_classification_frame
          /\ co' = [co EXCEPT !.classify = "done",
                              !.exc = IF c.status = "returned" THEN "" ELSE "Exception"]
    /\ invoked' = <<"add_frame", "detect", "update", "classify">>
    /\ pc' = "finish"
    /\ UNCHANGED <<frame_buffer, session_open, added, trkVars, frame_count, det_log,
                   result, op, extVars>>

\* the rest of process_frame: persons, the debug line, the result
AsyncFinish ==
    /\ pc = "finish"
    /\ result' = IF co.exc # "" THEN Raised(co.exc)
                 ELSE IF DebugLogRaises THEN Raised("AttributeError")
                 ELSE FrameResult(frame_count, LocalTracks(co), violence_classification)
    /\ op' = Op("process_frame", <<co.frame, 0>>)
    /\ pc' = "idle"
    /\ UNCHANGED <<clsVars, trkVars, frame_count, last_classification_frame,
                   violence_classification, invoked, cls_log, det_log, co, extVars>>

\* AIPipeline.close(): the close() coroutines of the three components are
\* created in a loop and awaited together by asyncio.gather with
\* return_exceptions=True.  `fails` is the set of components whose close()
\* raises; each close() has made its assignments before the first statement
\* of it that can raise (logger.info, torch.cuda.empty_cache).
Components == <<"detector", "tracker", "classifier">>
\* a gather that awaits one coroutine after the other and lets the first
\* exception through
GatherSequential(coros, fails) ==
    LET bad == { k \in 1..Len(coros) : coros[k] \in fails }
    IN IF bad = {}
       THEN [status |-> "returned", ran |-> coros, failed |-> {}]
       ELSE LET k == CHOOSE x \in bad : \A y \in bad : x <= y
            IN [status |-> "raised", ran |-> SubSeq(coros, 1, k), failed |-> {coros[k]}]
\* asyncio.gather(*tasks, return_exceptions=True): every coroutine runs, the
\* exceptions come back as results
Gather(coros, fails) ==
    [status |-> "returned", ran |-> coros,
     failed |-> { coros[k] : k \in 1..Len(coros) } \cap fails]

Ran(g, name) == \E k \in 1..Len(g.ran) : g.ran[k] = name

\* AIPipeline.close() gives the event loop back at `await asyncio.gather`:
\* other tasks run between its entry and the components' close() bodies, and
\* between the bodies and its return.  The call waits in `calls` meanwhile,
\* with what gather has collected so far.
ClosingCall(g) == [name |-> "close", caller |-> 0, alias |-> FALSE, gathered |-> g]

\* close() up to the await: the three coroutines are created and handed to
\* gather, which makes a task of each.  (The order of `calls` means nothing:
\* a close() is put first.)
PipelineCloseBegin ==
    /\ Len(calls) < MaxCalls
    /\ Cardinality({ k \in 1..Len(calls) : calls[k].name = "close" }) < MaxClosing
    /\ calls' = <<ClosingCall(NoCall)>> \o calls
    /\ op' = Op("close_begin", << >>)
    /\ UNCHANGED <<clsVars, trkVars, pipeVars, restVars, vpVars>>

\* the three tasks of gather run one after the other, each close() body to
\* its end (none of them awaits); the components in `fails` raise
PipelineCloseBodies(k, fails) ==
    /\ k \in 1..Len(calls)
    /\ calls[k].name = "close"
    /\ calls[k].gathered = NoCall
    /\ \E g \in {Gather(Components, fails)} :
       /\ det_session_open' = IF Ran(g, "detector") THEN FALSE ELSE det_session_open
       /\ tracks' = IF Ran(g, "tracker") THEN EmptyTracks ELSE tracks
       /\ misses' = IF Ran(g, "tracker") THEN [id \in DOMAIN misses |-> max_age + 1] ELSE misses
       /\ steady' = IF Ran(g, "tracker") THEN NoSteady ELSE steady
       /\ session_open' = IF Ran(g, "classifier") THEN FALSE ELSE session_open
       /\ frame_buffer' = IF Ran(g, "classifier") THEN << >> ELSE frame_buffer
       /\ added' = IF Ran(g, "classifier") THEN << >> ELSE added
       /\ calls' = [(IF Ran(g, "tracker") THEN Rebound(calls, tracks) ELSE calls)
                        EXCEPT ![k] = ClosingCall(g)]
       /\ co' = IF Ran(g, "tracker") /\ co.alias
                THEN [co EXCEPT !.alias = FALSE, !.map = tracks] ELSE co
       /\ op' = Op("close_bodies", <<fails>>)
       /\ UNCHANGED <<cls_result, use_deepsort, next_id, max_age, trk_result, reported,
                      pipeVars, violence_threshold, close_log, box_result, pc, vpVars>>

\* gather is done: close() logs and returns, or lets through what gather raised
PipelineCloseReturn(k) ==
    /\ k \in 1..Len(calls)
    /\ calls[k].name = "close"
    /\ calls[k].gathered # NoCall
    /\ close_log' = calls[k].gathered
    /\ calls' = Remove(calls, k)
    /\ op' = Op("close", <<calls[k].gathered.failed>>)
    /\ UNCHANGED <<clsVars, trkVars, pipeVars, det_session_open, violence_threshold,
                   box_result, pc, co, vpVars>>

\* VideoProcessor.update_config(config): float() of the value, clamped to
\* [0, 1]; a value float() rejects leaves the threshold as it was.  Only the
\* processor's own violence_threshold is assigned.
Number(n) == [kind |-> "number", num |-> n]
Text == [kind |-> "text", num |-> 0]
ConfigInputs == { [keys |-> {}, violence_threshold |-> Number(0)] } \cup
                { [keys |-> {"violence_threshold"}, violence_threshold |-> v] :
                     v \in {Number(50), Number(95), Number(150), Text} }

UpdateConfigThreshold(current, config) ==
    IF "violence_threshold" \notin config.keys THEN current
    ELSE IF config.violence_threshold.kind # "number" THEN current
    ELSE Max2(0, Min2(100, config.violence_threshold.num))

UpdateConfig(config) ==
    /\ violence_threshold' = UpdateConfigThreshold(violence_threshold, config)
    /\ op' = Op("update_config", <<config>>)
    /\ UNCHANGED <<clsVars, trkVars, pipeVars, det_session_open, close_log, box_result, pc, co,
                   vpVars, calls>>

\* The positions at which the process_frame coroutine has yielded to the
\* event loop: between calls, and inside classify() while
\* asyncio.to_thread(self.session.run, ...) is pending.  detect() and update()
\* call session.run and deep_sort.update_tracks directly, without an await.
Suspended(p) == p \in {"idle", "in_classify"}

\* another event handled by the event loop while process_frame is
\* suspended: a websocket update_config command
AsyncConfigInputs == { c \in ConfigInputs : c.violence_threshold = Number(95) }
AsyncOtherEvent(config) ==
    /\ Suspended(pc)
    /\ violence_threshold' = UpdateConfigThreshold(violence_threshold, config)
    /\ violence_threshold' # violence_threshold
    /\ UNCHANGED <<clsVars, trkVars, pipeVars, op, det_session_open, close_log,
                   box_result, pc, co, vpVars, calls>>

\* What the event loop runs while the process_frame call that is followed
\* step by step is suspended in classify(): the process_frame call of another
\* task, from its entry to its own suspension or end (a call on a frame that
\* enters while no call is in progress is the one followed step by step; a
\* call with no frame or an empty one returns at once, at either point), the
\* continuation of such a call, and close().
AsyncCloseFails == { {} }
AsyncOtherCall(frame, d, ds, pre) ==
    /\ Suspended(pc)
    /\ pc = "idle" => IsEmptyFrame(frame)
    /\ IsEmptyFrame(frame) \/ frame_count < MaxSteppedFrames
    /\ ProcessFrame(frame, d, ds, pre)
AsyncOtherResume(k, m) ==
    Suspended(pc) /\ ProcessFrameResume(k, m)

\* the decision of the stream loop for one classification: process_frame
\* copies violence_detected and score of the classification into its result,
\* and _process_video_stream registers an incident when the flag is set and
\* the score reaches the processor's threshold
StreamDecision(classification, threshold) ==
    classification.violence_detected /\ classification.score >= threshold

(***************************************************************************)
(* VideoProcessor                                                          *)
(***************************************************************************)
\* start(), stop() and the _process_video_stream tasks, as the event loop
\* interleaves them, on the pipeline main.py hands to the processor.
min_incident_interval == 10
\* what start(), stop() and the loop outside process_frame leave alone
streamVars == <<clsVars, trkVars, pipeVars, det_session_open, violence_threshold,
                close_log, box_result, pc, co, calls>>
\* the frames the camera yields (get_frames drops what imdecode rejects) and
\* what the models do with them
StreamFrames == {"imgA"}
StreamDetOutcomes == { DetOk(<<Pred(BoxA, 90)>>) }
StreamDsOutcomes == {"all", "unused"}
StreamClockSteps == {0, 10}
StreamModelOutcomes == { ModelOk(<<100, 0, 0>>), ModelOk(<<10, 0, 90>>) }

NewLoop == [pc |-> "created", camera |-> "new"]
Active(l) == l.pc \in {"wait_frame", "processing"}

\* start()
Start ==
    /\ IF is_running
       THEN UNCHANGED <<is_running, processing_task, loops>>
       ELSE /\ Len(loops) < MaxLoops
            /\ Cardinality({ j \in 1..Len(loops) : loops[j].pc # "done" }) < MaxAlive
            /\ is_running' = TRUE
            /\ loops' = Append(loops, NewLoop)
            /\ processing_task' = Len(loops) + 1
    /\ op' = Op("start", <<is_running>>)
    /\ UNCHANGED <<stopping, last_incident_time, clock, incidents, streamVars>>

\* stop() up to `await self.processing_task`; awaiting a finished task
\* returns at once
Stop ==
    /\ IF ~is_running
       THEN UNCHANGED <<is_running, processing_task, stopping>>
       ELSE /\ is_running' = FALSE
            /\ IF processing_task = 0
               THEN UNCHANGED <<processing_task, stopping>>
               ELSE IF loops[processing_task].pc = "done"
               THEN processing_task' = 0 /\ UNCHANGED stopping
               ELSE Cardinality(stopping) < MaxStops
                    /\ stopping' = stopping \cup {processing_task}
                    /\ UNCHANGED processing_task
    /\ op' = Op("stop", <<is_running>>)
    /\ UNCHANGED <<loops, last_incident_time, clock, incidents, streamVars>>

\* the awaited task has finished: stop() sets processing_task = None and returns
StopReturn(i) ==
    /\ i \in stopping
    /\ loops[i].pc = "done"
    /\ stopping' = stopping \ {i}
    /\ processing_task' = 0
    /\ op' = Op("stop_return", <<i>>)
    /\ UNCHANGED <<is_running, loops, last_incident_time, clock, incidents, streamVars>>

\* the task starts: IPWebcam(), camera.start(), first wait for a frame
LoopBegin(i) ==
    /\ i \in 1..Len(loops)
    /\ loops[i].pc = "created"
    /\ loops' = [loops EXCEPT ![i] = [pc |-> "wait_frame", camera |-> "running"]]
    /\ op' = Op("loop_begin", <<i>>)
    /\ UNCHANGED <<is_running, processing_task, stopping, last_incident_time, clock,
                   incidents, streamVars>>

\* the except / finally of _process_video_stream
LoopExit(i) ==
    /\ loops' = [loops EXCEPT ![i] = [pc |-> "done", camera |-> "stopped"]]
    /\ is_running' = FALSE

\* the minimum interval between two incidents
IntervalElapsed(last, now) == last = -1 \/ now - last >= min_incident_interval

\* the incident gate of the loop
IncidentGate(results, threshold) ==
    results.violence_detected /\ results.violence_score >= threshold

\* the loop body from the return of process_frame on: an exception leaves
\* the loop; a result passes the incident gate, is broadcast, and the loop
\* waits for the next frame.  _register_incident, the encoder and broadcast
\* catch their own exceptions.
AfterProcessFrame(i, r) ==
    IF r.status = "raised"
    THEN LoopExit(i) /\ UNCHANGED <<last_incident_time, incidents>>
    ELSE /\ loops' = [loops EXCEPT ![i].pc = "wait_frame"]
         /\ UNCHANGED is_running
         /\ IF IncidentGate(r, violence_threshold)
               /\ IntervalElapsed(last_incident_time, clock')
            THEN /\ last_incident_time' = clock'
                 /\ incidents' = Append(incidents,
                        [time |-> clock', violence_detected |-> r.violence_detected,
                         violence_score |-> r.violence_score,
                         threshold |-> violence_threshold])
            ELSE UNCHANGED <<last_incident_time, incidents>>

\* the camera yields a frame dt seconds after the previous event.  The loop
\* leaves if is_running is False, whatever the frame and the models would
\* have done with it; otherwise it calls process_frame, which runs to its end
\* or is suspended in the classifier's inference.
LoopFrame(i, dt, frame, d, ds, pre) ==
    /\ i \in 1..Len(loops)
    /\ loops[i].pc = "wait_frame"
    /\ clock + dt <= MaxClock
    /\ clock' = clock + dt
    /\ IF ~is_running
       THEN /\ LoopExit(i)
            /\ op' = Op("break", <<i>>)
            /\ UNCHANGED <<last_incident_time, incidents, streamVars>>
       ELSE /\ ProcessFrameBody(i, frame, d, ds, pre)
            /\ IF Len(calls') > Len(calls)
               THEN /\ loops' = [loops EXCEPT ![i].pc = "processing"]
                    /\ UNCHANGED <<is_running, last_incident_time, incidents>>
               ELSE AfterProcessFrame(i, result')
    /\ UNCHANGED <<processing_task, stopping>>

\* the suspended process_frame call of loop i comes back, dt seconds after
\* the previous event: the inference took that long
LoopFrameDone(i, dt, m) ==
    /\ i \in 1..Len(loops)
    /\ loops[i].pc = "processing"
    /\ clock + dt <= MaxClock
    /\ clock' = clock + dt
    /\ \E k \in 1..Len(calls) :
          /\ calls[k].caller = i
          /\ ProcessFrameResumeBody(k, m)
    /\ AfterProcessFrame(i, result')
    /\ UNCHANGED <<processing_task, stopping>>

\* get_frames() ends: the connection failed or timed out
CameraEnd(i) ==
    /\ i \in 1..Len(loops)
    /\ loops[i].pc = "wait_frame"
    /\ LoopExit(i)
    /\ op' = Op("camera_end", <<i>>)
    /\ UNCHANGED <<processing_task, stopping, last_incident_time, clock, incidents,
                   streamVars>>

\* YOLODetector.detect called directly on what session.run produced
BoxOut == <<5, 5, 3, 3>>        \* reaches beyond the 6 x 6 image
DetectorPreds == { Pred(b, c) : b \in {BoxA, BoxB, BoxC, BoxOut}, c \in {60, 70} }
DetectorOutcomes == {DetRaise} \cup
                    { DetOk(ps) : ps \in UNION { [1..n -> DetectorPreds] : n \in 0..MaxDets } }

DetectCall(image, d) ==
    /\ (det_session_open \/ d = DetRaise)
    /\ det_log' = [status |-> "returned", failed |-> d.raises,
                   detections |-> Detect(image, d), frame |-> frame_count]
    /\ op' = Op("detect", <<image, d>>)
    /\ UNCHANGED <<clsVars, trkVars, frame_count, last_classification_frame,
                   violence_classification, result, invoked, cls_log, auxVars>>

\* YOLODetector.close(): the session is dropped
DetectorClose ==
    /\ det_session_open' = FALSE
    /\ op' = Op("detector_close", << >>)
    /\ UNCHANGED <<clsVars, trkVars, pipeVars, violence_threshold, close_log,
                   box_result, pc, co, vpVars, calls>>

\* box arithmetic of the tracker called directly
CoordBoxes == (0..MaxCoord) \X (0..MaxCoord) \X (0..MaxCoord) \X (0..MaxCoord)

Drawn(a, b) == [status |-> "drawn", a |-> a, b |-> b]

IouCall ==
    /\ box_result.status = "drawn"
    /\ box_result' = [status |-> "returned", iou |-> _calculate_iou(box_result.a, box_result.b)]
    /\ op' = Op("_calculate_iou", <<box_result.a, box_result.b>>)
    /\ UNCHANGED <<clsVars, trkVars, pipeVars, det_session_open, violence_threshold,
                   close_log, pc, co, vpVars, calls>>

\* the two conversions of the embedding-strategy adapter, one after the other
LtrbCall ==
    /\ box_result.status = "drawn"
    /\ box_result' = [status |-> "returned", ltrb |-> ToLtrb(box_result.a),
                      bbox |-> FromLtrb(ToLtrb(box_result.a))]
    /\ op' = Op("ltrb", <<box_result.a>>)
    /\ UNCHANGED <<clsVars, trkVars, pipeVars, det_session_open, violence_threshold,
                   close_log, pc, co, vpVars, calls>>

(***************************************************************************)
(* Specifications                                                          *)
(***************************************************************************)
InitClassifier ==
    /\ frame_buffer = << >>
    /\ session_open = TRUE
    /\ added = << >>
    /\ cls_result = NoCall

InitTrackerHistory ==
    /\ misses = << >>
    /\ reported = {}
    /\ steady = [ok |-> TRUE, n |-> 0, box |-> BoxZ, greedy |-> TRUE]

InitPipelineFields ==
    /\ det_log = NoCall
    /\ det_session_open = TRUE
    /\ violence_threshold = VIOLENCE_THRESHOLD
    /\ close_log = NoCall
    /\ pc = "idle"
    /\ co = NoCoroutines
    /\ is_running = FALSE
    /\ processing_task = 0
    /\ loops = << >>
    /\ stopping = {}
    /\ last_incident_time = -1
    /\ clock = 0
    /\ incidents = << >>
    /\ calls = << >>
    /\ frame_count = 0
    /\ last_classification_frame = 0
    /\ violence_classification = NoClassification
    /\ result = NoCall
    /\ invoked = << >>
    /\ cls_log = << >>
    /\ op = Op("init", << >>)

\* the pipeline as main.py constructs it: DeepSORTTracker() takes max_age from
\* the settings; use_deepsort is False when DeepSort could not be imported
Init ==
    /\ InitClassifier
    /\ use_deepsort \in BOOLEAN
    /\ tracks = EmptyTracks
    /\ next_id = 1
    /\ max_age = DEEPSORT_MAX_AGE
    /\ trk_result = NoCall
    /\ box_result = NoCall
    /\ InitTrackerHistory
    /\ InitPipelineFields

Next ==
    \/ \E frame \in {NoneFrame, EmptyFrame} \cup PipeFrames, d \in PipeDetOutcomes,
          ds \in PipeDsOutcomes \cup {"unused"}, pre \in PreOutcomes :
          ProcessFrame(frame, d, ds, pre)
    \/ \E k \in 1..MaxCalls, m \in PipeModelOutcomes : ProcessFrameResume(k, m)

Spec == Init /\ [][Next]_vars

\* a classifier driven directly through its public methods.  Every classify()
\* that is suspended here has tested a full buffer, so the suspended calls are
\* all alike and the return of any of them is the return of the first.
NextClassifier ==
    \/ \E frame \in ImageFrames : AddFrame(frame)
    \/ ClearBuffer
    \/ \E pre \in PreOutcomes : ClassifyCall(pre)
    \/ \E m \in ModelOutcomes : ClassifyResume(1, m)
    \/ ClassifierClose

SpecClassifier == Init /\ [][NextClassifier]_vars

\* a tracker driven directly through update(), constructed with any max_age
InitTracker ==
    /\ InitClassifier
    /\ use_deepsort \in BOOLEAN
    /\ tracks = EmptyTracks
    /\ next_id = 1
    /\ max_age \in TrackerMaxAges
    /\ trk_result = NoCall
    /\ box_result = NoCall
    /\ InitTrackerHistory
    /\ InitPipelineFields

NextTracker ==
    \E image \in PipeFrames, detections \in DetLists : UpdateCall(image, detections)

SpecTracker == InitTracker /\ [][NextTracker]_vars

\* the components used and then closed; the pipeline object stays reachable
\* after close()
CloseFrames == {"imgA"}
CloseDetLists == {<<Det(BoxA, 90)>>}

NextClose ==
    \/ \E frame \in CloseFrames : AddFrame(frame)
    \/ \E image \in CloseFrames, detections \in CloseDetLists : UpdateCall(image, detections)
    \/ PipelineCloseBegin
    \/ \E k \in 1..MaxCalls, fails \in SUBSET {"detector", "tracker", "classifier"} :
          PipelineCloseBodies(k, fails)
    \/ \E k \in 1..MaxCalls : PipelineCloseReturn(k)

SpecClose == Init /\ [][NextClose]_vars

\* the video processor driven by start / stop requests and
\* by the camera
LoopSteps ==
    \/ \E i \in 1..MaxLoops : LoopBegin(i)
    \/ \E i \in 1..MaxLoops, dt \in StreamClockSteps, m \in StreamModelOutcomes :
          LoopFrameDone(i, dt, m)
    \/ \E i \in 1..MaxLoops : StopReturn(i)

NextStream ==
    \/ Start
    \/ Stop
    \/ LoopSteps
    \/ \E i \in 1..MaxLoops, dt \in StreamClockSteps, frame \in StreamFrames,
          d \in StreamDetOutcomes, ds \in StreamDsOutcomes, pre \in PreOutcomes :
          LoopFrame(i, dt, frame, d, ds, pre)
    \/ \E i \in 1..MaxLoops : CameraEnd(i)

SpecStream == Init /\ [][NextStream]_vars

\* the same with the event loop running every task that is ready; when the
\* camera yields its next frame, and whether it does, is not up to the loop
SpecStreamFair == SpecStream /\ WF_vars(LoopSteps)

\* the detector on its own
NextDetector ==
    \/ \E image \in PipeFrames, d \in DetectorOutcomes : DetectCall(image, d)
    \/ DetectorClose

SpecDetector == Init /\ [][NextDetector]_vars

\* the classifier of a running stream and the configuration path
ConfigFrames == {"imgA"}

NextConfig ==
    \/ \E frame \in ConfigFrames : AddFrame(frame)
    \/ \E pre \in PreOutcomes : ClassifyCall(pre)
    \/ \E k \in 1..MaxCalls, m \in ModelOutcomes : ClassifyResume(k, m)
    \/ \E config \in ConfigInputs : UpdateConfig(config)

SpecConfig == Init /\ [][NextConfig]_vars

\* process_frame run step by step on a stream of frames
NextAsync ==
    \/ \E frame \in PipeFrames : AsyncBegin(frame)
    \/ AsyncAddFrame
    \/ AsyncDetectStart
    \/ \E d \in AsyncDetOutcomes : AsyncDetectDone(d)
    \/ AsyncUpdateStart
    \/ \E ds \in (IF use_deepsort THEN PipeDsOutcomes ELSE {"unused"}) : AsyncUpdateDone(ds)
    \/ \E pre \in PreOutcomes : AsyncClassifyStart(pre)
    \/ \E m \in AsyncModelOutcomes : AsyncClassifyDone(m)
    \/ AsyncFinish
    \/ \E config \in AsyncConfigInputs : AsyncOtherEvent(config)
    \/ \E frame \in {NoneFrame, EmptyFrame} \cup PipeFrames, d \in AsyncDetOutcomes,
          ds \in PipeDsOutcomes \cup {"unused"}, pre \in PreOutcomes :
          AsyncOtherCall(frame, d, ds, pre)
    \/ \E k \in 1..MaxCalls, m \in AsyncModelOutcomes : AsyncOtherResume(k, m)
    \/ Suspended(pc) /\ PipelineCloseBegin
    \/ \E k \in 1..MaxCalls, fails \in AsyncCloseFails :
          Suspended(pc) /\ PipelineCloseBodies(k, fails)
    \/ \E k \in 1..MaxCalls : Suspended(pc) /\ PipelineCloseReturn(k)

SpecAsync == Init /\ [][NextAsync]_vars

\* the box arithmetic applied once to a pair of boxes drawn from a small grid
InitBoxes ==
    /\ InitClassifier
    /\ use_deepsort = FALSE
    /\ tracks = EmptyTracks
    /\ next_id = 1
    /\ max_age = DEEPSORT_MAX_AGE
    /\ trk_result = NoCall
    /\ box_result \in {Drawn(a, b) : a \in CoordBoxes, b \in CoordBoxes}
    /\ InitTrackerHistory
    /\ InitPipelineFields

NextBoxes ==
    \/ IouCall
    \/ LtrbCall

SpecBoxes == InitBoxes /\ [][NextBoxes]_vars

(***************************************************************************)
(* Properties                                                              *)
(***************************************************************************)
\* a process_frame call has just ended, at once or after its suspension in
\* the classifier
IsProcessFrameCall(o) == o.name \in {"process_frame", "process_frame_resume"}
ProcessedFrame(o) == IsProcessFrameCall(o) /\ ~(o.args[1] \in {NoneFrame, EmptyFrame})
RejectedFrame(o) == IsProcessFrameCall(o) /\ o.args[1] \in {NoneFrame, EmptyFrame}
\* a process_frame call on a non-empty frame has just run from its entry to
\* its end or to its suspension: the frame was counted, buffered, detected
\* and tracked
EnteredFrame(o) ==
    /\ o.name \in {"process_frame", "process_frame_await"}
    /\ ~(o.args[1] \in {NoneFrame, EmptyFrame})
\* the process_frame calls made so far were made one at a time: none was
\* entered while another one was suspended
OneAtATime ==
    /\ \A k \in 1..Len(cls_log) : cls_log[k].frame = cls_log[k].launched
    /\ \A k \in 1..Len(calls) :
          calls[k].name = "process_frame" => calls[k].launched = frame_count

\* C1: process_frame on a non-empty frame returns a result object and never
\* raises, whatever the detector, tracker and classifier do.
C1_ProcessFrameNeverRaises ==
    ProcessedFrame(op) => result.status = "returned"

\* C2: process_frame with a None or zero-size frame returns persons = [] and
\* violence_detected = False, invokes no component, and leaves frame_count,
\* last_classification_frame, the cached classification, the ring buffer and
\* the track map unchanged.
C2_EmptyFrameRejected ==
    [][RejectedFrame(op') =>
          /\ result'.status = "returned"
          /\ result'.persons = << >>
          /\ result'.violence_detected = FALSE
          /\ invoked' = << >>
          /\ cls_result' = cls_result
          /\ trk_result' = trk_result
          /\ UNCHANGED <<frame_count, last_classification_frame,
                         violence_classification, frame_buffer, tracks, next_id>>]_vars

\* an empty frame was rejected by a pipeline that has a full buffer, a cached
\* classification and live tracks
C2_Witness ==
    /\ RejectedFrame(op)
    /\ op.args[1] = EmptyFrame
    /\ result.status = "returned"
    /\ Len(frame_buffer) = num_frames
    /\ violence_classification.present
    /\ DOMAIN tracks # {}

\* C3: on each processed frame the classifier runs iff (frame_count -
\* last_classification_frame >= VIOLENCE_FRAME_INTERVAL or nothing is cached
\* yet) and the ring buffer holds num_frames frames; when it runs the cached
\* classification becomes the new result and last_classification_frame the
\* current frame index, otherwise both are unchanged.
C3_ClassifierGate ==
    [][/\ EnteredFrame(op') =>
             LET ended == cls_log' # cls_log
                 launched == ended \/ Len(calls') > Len(calls)
                 gate == \/ frame_count' - last_classification_frame
                               >= VIOLENCE_FRAME_INTERVAL
                         \/ violence_classification = NoClassification
             IN /\ launched <=> (gate /\ Len(frame_buffer') >= num_frames)
                /\ ended => /\ violence_classification' = cls_result'.value
                            /\ last_classification_frame' = frame_count'
                            /\ cls_log'[Len(cls_log')].frame = frame_count'
                            /\ invoked'[Len(invoked')] = "classify"
                /\ ~ended => /\ UNCHANGED <<violence_classification,
                                             last_classification_frame>>
                             /\ \A i \in 1..Len(invoked') : invoked'[i] # "classify"
       /\ op'.name = "process_frame_resume" =>
             /\ cls_log' # cls_log
             /\ violence_classification' = cls_result'.value
             /\ last_classification_frame' = frame_count'
             /\ cls_log'[Len(cls_log')].frame = frame_count'
             /\ invoked'[Len(invoked')] = "classify"]_vars

\* the classifier has just run for the second time, on the interval gate,
\* and its result was stored when the inference came back
C3_Witness ==
    /\ op.name = "process_frame_resume"
    /\ Len(cls_log) = 2
    /\ cls_log[2].launched = cls_log[1].frame + VIOLENCE_FRAME_INTERVAL
    /\ last_classification_frame = frame_count
    /\ violence_classification = cls_result.value
    /\ invoked = <<"add_frame", "detect", "update", "classify">>

\* C4: in a sequence of process_frame calls made one at a time, the frame
\* indices of two consecutive classifier invocations differ by at least
\* VIOLENCE_FRAME_INTERVAL, also when the earlier one failed.
C4_ClassifierSpacing ==
    OneAtATime =>
       \A i \in 1..(Len(cls_log) - 1) :
           cls_log[i + 1].frame - cls_log[i].frame >= VIOLENCE_FRAME_INTERVAL

\* a classifier run that failed was followed by a later run
C4_Witness ==
    /\ OneAtATime
    /\ \E i \in 1..(Len(cls_log) - 1) : cls_log[i].failed

\* C5: in a sequence of process_frame calls on non-empty frames made one at
\* a time, the first classification runs on frame num_frames, and from then
\* on, at the end of every call, frame_count - last_classification_frame is
\* below VIOLENCE_FRAME_INTERVAL.
C5_FirstRunAndStaleness ==
    (OneAtATime /\ calls = << >>) =>
       /\ frame_count < num_frames => cls_log = << >>
       /\ frame_count >= num_frames =>
             /\ cls_log # << >>
             /\ cls_log[1].frame = num_frames
             /\ frame_count - last_classification_frame < VIOLENCE_FRAME_INTERVAL

\* a frame processed three frames after the first classification, whose
\* result was stored when the inference came back
C5_Witness ==
    /\ ProcessedFrame(op)
    /\ OneAtATime /\ calls = << >>
    /\ Len(cls_log) = 1
    /\ ~cls_log[1].failed
    /\ frame_count - last_classification_frame = VIOLENCE_FRAME_INTERVAL - 1

\* C6: the violence_detected / violence_score / violence_class fields of every
\* per-frame result equal those of the most recent classification run, and
\* are (False, 0.0, no_violencia) before the first run.
C6_ResultCarriesClassification ==
    ProcessedFrame(op) =>
        /\ result.status = "returned"
        /\ {"violence_detected", "violence_score", "violence_class"} \subseteq result.fields
        /\ IF cls_log = << >>
           THEN /\ result.violence_detected = FALSE
                /\ result.violence_score = 0
                /\ result.violence_class = "no_violencia"
           ELSE /\ result.violence_detected = cls_result.value.violence_detected
                /\ result.violence_score = cls_result.value.score
                /\ result.violence_class = cls_result.value.class_name

\* C7: with fewer than num_frames buffered frames classify() returns class
\* no_violencia (class_id 0), score 0.0, violence_detected False and does not
\* invoke the model; inference never starts on a partially filled window.
C7_ShortBufferDefault ==
    /\ (cls_result.status # "none" /\ cls_result.buffer_len < num_frames) =>
          /\ cls_result.status = "returned"
          /\ cls_result.value.class_id = 0
          /\ cls_result.value.class_name = "no_violencia"
          /\ cls_result.value.score = 0
          /\ cls_result.value.violence_detected = FALSE
          /\ cls_result.model_invoked = FALSE
    /\ (cls_result.status # "none" /\ cls_result.model_invoked) =>
          cls_result.buffer_len = num_frames

\* classify() was called on a window one frame short of full and returned
\* at once
C7_Witness ==
    /\ op.name = "classify"
    /\ op.args[1] = NotRun
    /\ cls_result.status = "returned"
    /\ ~cls_result.model_invoked
    /\ cls_result.buffer_len = num_frames - 1
    /\ Len(frame_buffer) = num_frames - 1
    /\ calls = << >>

\* C8: after add_frame calls f1..fk since construction or the last
\* clear_buffer the ring buffer holds exactly the last min(k, num_frames)
\* frames, oldest first; its length never exceeds num_frames.
C8_RingBufferContents ==
    LET k == Len(added)
        n == Min2(k, num_frames)
    IN /\ Len(frame_buffer) = n
       /\ Len(frame_buffer) <= num_frames
       /\ \A i \in 1..n : frame_buffer[i] = added[k - n + i]

\* a frame was evicted; the oldest frame kept differs from the first added
C8_Witness ==
    /\ op.name = "add_frame"
    /\ Len(added) = num_frames + 1
    /\ added[1] = "imgA"
    /\ added[2] = "imgB"
    /\ frame_buffer[1] = "imgB"
    /\ frame_buffer[num_frames] = "imgA"

\* C9: if preprocessing or inference raises during classify() on a full
\* buffer, classify() does not raise and returns the default result with a
\* non-empty error field.
C9_ClassifyErrorDefault ==
    (op.name = "classify" /\ op.args[1].raises # "no"
       /\ cls_result.buffer_len = num_frames) =>
        /\ cls_result.status = "returned"
        /\ cls_result.value.class_id = 0
        /\ cls_result.value.class_name = "no_violencia"
        /\ cls_result.value.score = 0
        /\ cls_result.value.violence_detected = FALSE
        /\ cls_result.value.error # ""

\* session.run raised on a full buffer
C9_Witness ==
    /\ op.name = "classify"
    /\ op.args[1].raises = "inference"
    /\ cls_result.buffer_len = num_frames
    /\ Len(frame_buffer) = num_frames
    /\ cls_result.model_invoked
    /\ cls_result.value.error = "inference failed"

\* C10: DeepSORTTracker.update never raises, for any image and detection
\* list, under either strategy, also when the fallback reprocessing fails.
C10_UpdateNeverRaises ==
    op.name = "update" => trk_result.status = "returned"

(***************************************************************************)
(* Greedy fallback: aging, creation, matching                              *)
(***************************************************************************)
IsUpdateCall(o) == o.name = "update"
WellFormed(detections) ==
    \A j \in 1..Len(detections) : HasKey(detections[j], "bbox")
WellFormedLists == { detections \in DetLists : WellFormed(detections) }

\* C11: after every update() under the greedy fallback every track has
\* 0 <= age <= max_age, and a track whose age would exceed max_age (its age
\* before the call plus one) is gone from the map after that same call.
C11_AgeBounded ==
    [][ (IsUpdateCall(op') /\ ~use_deepsort')
        => /\ \A id \in DOMAIN tracks' :
                 tracks'[id].age >= 0 /\ tracks'[id].age <= max_age'
           /\ \A id \in DOMAIN tracks :
                 tracks[id].age + 1 > max_age => id \notin DOMAIN tracks' ]_vars

\* a greedy update() left one track at age max_age while another track has
\* been removed for exceeding it
C11_Witness ==
    /\ IsUpdateCall(op) /\ ~use_deepsort
    /\ \E id \in DOMAIN tracks : tracks[id].age = max_age
    /\ \E id \in 1..(next_id - 1) : id \notin DOMAIN tracks

\* C12: under the greedy fallback a track that has gone k consecutive
\* update() calls without a matching detection is in the returned map while
\* k <= max_age and absent once k = max_age + 1.
C12_PresentUntilMaxAge ==
    (IsUpdateCall(op) /\ ~use_deepsort /\ trk_result.status = "returned")
    => \A id \in DOMAIN misses :
          /\ misses[id] <= max_age => id \in DOMAIN trk_result.value
          /\ misses[id] > max_age => id \notin DOMAIN trk_result.value

\* with max_age = 2, one track is still reported after its second unmatched
\* call and another is absent after its third
C12_Witness ==
    /\ IsUpdateCall(op) /\ ~use_deepsort /\ max_age = 2
    /\ \E id \in DOMAIN misses : misses[id] = max_age /\ id \in DOMAIN trk_result.value
    /\ \E id \in DOMAIN misses : misses[id] = max_age + 1 /\ id \notin DOMAIN trk_result.value

\* the ids an update() step assigns to tracks it creates
NewIds ==
    IF trk_result'.fell_back THEN DOMAIN tracks'
    ELSE (DOMAIN tracks') \ (DOMAIN tracks)

\* C13: over the tracker's lifetime, deletions by aging and the downgrade to
\* the greedy fallback included, an id that update() has reported is never
\* assigned to another track: every id a call assigns to a new track is
\* larger than every id reported before.
C13_IdsNeverReused ==
    [][ IsUpdateCall(op') => \A id \in NewIds : \A r \in reported : id > r ]_vars

\* C14: under the greedy fallback, update() on an empty track map with
\* n >= 1 detections returns exactly n tracks, the j-th detection under id
\* next_id + j - 1 with age 0 and the detection's bbox and confidence, and
\* advances next_id by n.
C14_CreateFromEmpty ==
    [][ (~use_deepsort /\ tracks = EmptyTracks)
        => \A image \in PipeFrames, detections \in WellFormedLists :
              (Len(detections) >= 1 /\ UpdateCall(image, detections))
              => /\ trk_result'.status = "returned"
                 /\ trk_result'.value = tracks'
                 /\ next_id' = next_id + Len(detections)
                 /\ DOMAIN tracks' = next_id..(next_id + Len(detections) - 1)
                 /\ \A j \in 1..Len(detections) :
                       LET t == tracks'[next_id + j - 1]
                       IN /\ t.age = 0
                          /\ t.bbox = detections[j].bbox
                          /\ t.confidence = detections[j].confidence ]_vars

\* the first greedy update() of a tracker, with two detections, created the
\* tracks 1 and 2
C14_Witness ==
    /\ IsUpdateCall(op) /\ ~use_deepsort /\ ~trk_result.fell_back
    /\ trk_result.matched = << >>
    /\ next_id = 3
    /\ DOMAIN tracks = {1, 2}
    /\ tracks[1] = Track(BoxA, 90) /\ tracks[2] = Track(BoxB, 90)

\* the IoU of a track's box before the call and the box the call gave it
ScoreOfMatch(id) == _calculate_iou(tracks[id].bbox, tracks'[id].bbox)

\* C15: the greedy loop commits pairs in non-increasing score order, each
\* committed pair has the highest score among the pairs whose track and
\* detection are both still unassigned, and every committed pair scores
\* strictly above 0.3.  The detections of the call are read back from the map
\* it leaves: a matched track carries its detection's box, an unmatched
\* detection became a new track.
C15_GreedyOrder ==
    [][ (IsUpdateCall(op') /\ ~use_deepsort /\ Len(trk_result'.matched) >= 1)
        => LET m == trk_result'.matched
               survivors == (DOMAIN tracks) \cap (DOMAIN tracks')
               created == (DOMAIN tracks') \ (DOMAIN tracks)
           IN \A k \in 1..Len(m) :
                 LET s == ScoreOfMatch(m[k])
                     freeT == survivors \ { m[i] : i \in 1..(k - 1) }
                     freeD == { tracks'[m[i]].bbox : i \in k..Len(m) } \cup
                              { tracks'[id].bbox : id \in created }
                 IN /\ s.num * 10 > 3 * s.den
                    /\ k < Len(m) => ~RatGt(ScoreOfMatch(m[k + 1]), s)
                    /\ \A t \in freeT, b \in freeD :
                          ~RatGt(_calculate_iou(tracks[t].bbox, b), s) ]_vars

\* a greedy update() committed track 2 before track 1
C15_Witness ==
    /\ IsUpdateCall(op) /\ ~use_deepsort
    /\ trk_result.matched = <<2, 1>>

(***************************************************************************)
(* Strategies of the tracker                                               *)
(***************************************************************************)
NonDegenerate(box) == box[3] > 0 /\ box[4] > 0
\* the tracker has only seen the same single non-degenerate detection
SteadyRun == steady.ok /\ steady.n >= 1 /\ NonDegenerate(steady.box)
\* update() returned exactly the first track, fresh, at the run's box
OneSteadyTrack ==
    /\ trk_result.status = "returned"
    /\ DOMAIN trk_result.value = {1}
    /\ trk_result.value[1].age = 0
    /\ trk_result.value[1].bbox = steady.box

\* C16 as stated: when every frame since construction carried the same
\* single non-degenerate detection, update() reports exactly one track, under
\* the same id and with age 0, after each of the frames 1 to 8.
C16_OneTrackEveryFrame ==
    (IsUpdateCall(op) /\ SteadyRun) => OneSteadyTrack

\* C16 amended: the same holds when the greedy fallback processes each of the
\* frames (the embedding strategy reports a track only once it is confirmed).
C16_OneTrackUnderGreedy ==
    (IsUpdateCall(op) /\ SteadyRun /\ steady.greedy) => OneSteadyTrack

\* the greedy fallback has processed SteadyFrames identical frames
C16_Witness ==
    /\ IsUpdateCall(op) /\ SteadyRun /\ steady.greedy
    /\ steady.n = SteadyFrames

\* C17: the downgrade is one-way: an update() that fails under the embedding
\* strategy leaves use_deepsort false, and from a state with use_deepsort
\* false every update() keeps it false and does not invoke the embedding
\* tracker.
C17_DowngradeOneWay ==
    [][ IsUpdateCall(op')
        => /\ trk_result'.fell_back => ~use_deepsort'
           /\ ~use_deepsort => (~use_deepsort' /\ ~trk_result'.ds_invoked) ]_vars

\* a greedy update() ran after a downgrade: the ids 1 and 2 were reported by
\* the embedding strategy, the greedy counter has not handed out any id yet
C17_Witness ==
    /\ IsUpdateCall(op) /\ ~use_deepsort /\ ~trk_result.fell_back
    /\ reported = {1, 2} /\ next_id = 1

\* C18: when the embedding strategy raises during update(), the same call
\* reprocesses the frame's detections with the greedy fallback and returns a
\* map with one track per detection (detections that carry a bbox).
C18_FallbackReprocesses ==
    [][ (use_deepsort /\ IsUpdateCall(op') /\ trk_result'.fell_back)
        => \A image \in PipeFrames, detections \in WellFormedLists :
              UpdateCall(image, detections)
              => /\ trk_result'.status = "returned"
                 /\ ~use_deepsort'
                 /\ DOMAIN trk_result'.value = 1..Len(detections)
                 /\ \A j \in 1..Len(detections) :
                       /\ trk_result'.value[j].bbox = detections[j].bbox
                       /\ trk_result'.value[j].confidence = detections[j].confidence
                       /\ trk_result'.value[j].feature = NoFeature ]_vars

\* deep_sort.update_tracks raised on a frame with two detections and the call
\* returned two greedy tracks
C18_Witness ==
    /\ IsUpdateCall(op) /\ trk_result.fell_back /\ trk_result.ds_invoked
    /\ trk_result.status = "returned"
    /\ DOMAIN trk_result.value = {1, 2}
    /\ trk_result.value[1].bbox # trk_result.value[2].bbox

(***************************************************************************)
(* Detector failure, violence decision                                     *)
(***************************************************************************)
\* C19: when preprocessing, inference or postprocessing raises inside
\* detect(), detect() returns the empty list without raising, and
\* process_frame goes on to tracker.update with zero detections: the map the
\* tracker returns holds no track that was created or matched on this frame.
C19_DetectFailureIsEmpty ==
    (EnteredFrame(op) /\ det_log.failed)
    => /\ det_log.status = "returned"
       /\ det_log.detections = << >>
       /\ \E k \in 1..Len(invoked) : invoked[k] = "update"
       /\ trk_result.status = "returned"
       /\ trk_result.matched = << >>
       /\ \A id \in DOMAIN trk_result.value : trk_result.value[id].age >= 1

\* the detector failed on a frame while the greedy tracker held a track: the
\* track was aged and returned
C19_Witness ==
    /\ EnteredFrame(op) /\ det_log.failed
    /\ ~use_deepsort
    /\ \E id \in DOMAIN trk_result.value : trk_result.value[id].age = 1

\* C20: after a successful classify(), violence_detected is true exactly
\* when the class is violencia_directa with score >= threshold or the class
\* is amenazante_ambigua with score >= threshold + 0.1; it is never true for
\* no_violencia.
C20_ViolenceDecision ==
    (op.name = "classify" /\ cls_result.status = "returned"
       /\ cls_result.model_invoked /\ cls_result.value.error = "")
    => LET c == cls_result.value
       IN /\ c.violence_detected <=>
                \/ (c.class_name = "violencia_directa" /\ c.score >= VIOLENCE_THRESHOLD)
                \/ (c.class_name = "amenazante_ambigua"
                      /\ c.score >= VIOLENCE_THRESHOLD + 10)
          /\ c.class_name = "no_violencia" => ~c.violence_detected

\* classify() returned amenazante_ambigua with a score between the two
\* thresholds, and did not flag violence
C20_Witness ==
    /\ op.name = "classify" /\ cls_result.status = "returned"
    /\ cls_result.model_invoked /\ cls_result.value.error = ""
    /\ cls_result.value.class_name = "amenazante_ambigua"
    /\ cls_result.value.score = 89
    /\ ~cls_result.value.violence_detected

(***************************************************************************)
(* Box arithmetic                                                          *)
(***************************************************************************)
IsIouCall(o) == o.name = "_calculate_iou"
\* the width (or height) two intervals share
Shared(lo1, len1, lo2, len2) == Max2(0, Min2(lo1 + len1, lo2 + len2) - Max2(lo1, lo2))
\* the boxes share no area
NoOverlap(a, b) == Shared(a[1], a[3], b[1], b[3]) * Shared(a[2], a[4], b[2], b[4]) = 0
IsValue(r, n, d) == ~r.raises /\ r.num * d = n * r.den

\* C21: for all integer boxes a, b: IoU(a, a) = 1 when a has positive width
\* and height, IoU(a, b) = 0 when a and b do not overlap, and
\* IoU(a, b) = IoU(b, a).
C21_IouLaws ==
    IsIouCall(op)
    => LET a == op.args[1]
           b == op.args[2]
           r == box_result.iou
       IN /\ (a = b /\ NonDegenerate(a)) => IsValue(r, 1, 1)
          /\ NoOverlap(a, b) => IsValue(r, 0, 1)
          /\ r = _calculate_iou(b, a)

\* C22: (x, y, w, h) -> (x, y, x + w, y + h) -> (x1, y1, x2 - x1, y2 - y1)
\* gives back the box it started from, for every integer box.
C22_LtrbRoundTrip ==
    op.name = "ltrb"
    => /\ box_result.ltrb = <<op.args[1][1], op.args[1][2],
                              op.args[1][1] + op.args[1][3], op.args[1][2] + op.args[1][4]>>
       /\ box_result.bbox = op.args[1]

\* a box away from the origin with positive width and height was converted
C22_Witness ==
    /\ op.name = "ltrb"
    /\ op.args[1] = <<1, 2, 2, 1>>
    /\ box_result.ltrb = <<1, 2, 3, 3>>
    /\ box_result.bbox = <<1, 2, 2, 1>>

\* C29: _calculate_iou returns a value in [0, 1] and does not raise, for
\* every pair of boxes with non-negative width and height, zero-area boxes
\* included.
C29_IouInUnitInterval ==
    IsIouCall(op)
    => /\ ~box_result.iou.raises
       /\ box_result.iou.den > 0
       /\ 0 <= box_result.iou.num /\ box_result.iou.num <= box_result.iou.den

(***************************************************************************)
(* Classifier, tracker and pipeline operations                             *)
(***************************************************************************)
\* C24: a violence threshold pushed through update_config is applied to the
\* running pipeline: every violence decision for a classification made after
\* the update follows the decision rule with the new threshold, whether that
\* is higher or lower than the one read at construction.
C24_NewThresholdApplied ==
    (op.name = "classify" /\ cls_result.model_invoked /\ cls_result.value.error = "")
    => (StreamDecision(cls_result.value, violence_threshold)
          = ViolenceDetected(cls_result.value.class_id, cls_result.value.score,
                             violence_threshold))

\* C25: classify() changes neither the ring buffer nor any other input, in
\* the part before its await and in the part after it, and a classify() that
\* directly follows a classify(), with no add_frame or clear_buffer in
\* between, sees the same window and, when the model answers the same,
\* returns the same class and score.
C25_ClassifyReadOnly ==
    [][ /\ op'.name \in {"classify", "classify_await"}
           => /\ frame_buffer' = frame_buffer
              /\ session_open' = session_open
              /\ added' = added
        /\ op'.name = "classify_await"
           => calls'[Len(calls')].buffer_len = Len(frame_buffer)
        /\ (op'.name = "classify" /\ calls' = calls)
           => cls_result'.buffer_len = Len(frame_buffer)
        /\ (op.name = "classify" /\ op'.name = "classify" /\ op.args = op'.args)
           => /\ cls_result'.buffer_len = cls_result.buffer_len
              /\ cls_result'.value = cls_result.value ]_vars

\* the model ran on a full window and named a violent class; the window is
\* still the last num_frames frames added
C25_Witness ==
    /\ op.name = "classify"
    /\ cls_result.model_invoked
    /\ cls_result.value.class_id = 2
    /\ cls_result.value.score = 90
    /\ Len(frame_buffer) = num_frames
    /\ Len(added) > num_frames
    /\ frame_buffer = SubSeq(added, Len(added) - num_frames + 1, Len(added))

\* C26: under the greedy fallback an update() with an empty detection list
\* only ages: every surviving track keeps its id, bbox, feature and
\* confidence with its age one higher, every track whose age would exceed
\* max_age is removed, no track is created and next_id does not change.
C26_EmptyListOnlyAges ==
    [][ ~use_deepsort
        => \A image \in PipeFrames :
              UpdateCall(image, << >>)
              => LET survivors == { id \in DOMAIN tracks : tracks[id].age + 1 <= max_age }
                 IN /\ DOMAIN tracks' = survivors
                    /\ \A id \in survivors :
                          /\ tracks'[id].bbox = tracks[id].bbox
                          /\ tracks'[id].feature = tracks[id].feature
                          /\ tracks'[id].confidence = tracks[id].confidence
                          /\ tracks'[id].age = tracks[id].age + 1
                    /\ next_id' = next_id
                    /\ trk_result'.status = "returned"
                    /\ trk_result'.value = tracks' ]_vars

\* a greedy update() with an empty list returned a map in which one track
\* has aged and from which an older one has been removed
C26_Witness ==
    /\ IsUpdateCall(op) /\ op.args = <<TRUE>>
    /\ ~use_deepsort
    /\ trk_result.value = tracks
    /\ \E id \in DOMAIN tracks : tracks[id].age >= 1
    /\ \E id \in 1..(next_id - 1) : id \notin DOMAIN tracks

\* the ids of a sequence of matched tracks are pairwise different
Distinct(seq) == \A i \in 1..Len(seq), j \in 1..Len(seq) : seq[i] = seq[j] => i = j
\* what the claim says of one greedy update(): the matching is one-to-one,
\* every detection is carried by a track refreshed or created in this call,
\* and the new tracks are as many as the unmatched detections
OneToOne(before, after, matched, detections) ==
    LET new == DOMAIN after \ DOMAIN before
        touched == new \cup { matched[k] : k \in 1..Len(matched) }
    IN /\ Distinct(matched)
       /\ \A k \in 1..Len(matched) : matched[k] \in DOMAIN before
       /\ Cardinality(new) = Len(detections) - Len(matched)
       /\ Cardinality(touched) = Len(detections)
       /\ \A j \in 1..Len(detections) :
             \E id \in touched : /\ after[id].bbox = detections[j].bbox
                                 /\ after[id].confidence = detections[j].confidence
                                 /\ after[id].age = 0

\* C27: the greedy assignment is one-to-one: after a greedy update() every
\* detection is represented by exactly one track, matched or newly created,
\* and the map grows by exactly the number of unmatched detections.
C27_OneToOne ==
    [][ ~use_deepsort
        => \A image \in PipeFrames, detections \in WellFormedLists :
              UpdateCall(image, detections)
              => OneToOne(tracks, tracks', trk_result'.matched, detections) ]_vars

\* the greedy assignment of this call raised inside update()'s try block
GreedyRaises(detections) ==
    _assign_detections_to_tracks_simple(tracks, next_id, max_age, detections).raised

\* C28: when the greedy assignment raises inside update(), the call returns
\* the map the tracker held before the call: same ids, and the same bbox,
\* confidence and age for each of them.
C28_ExceptionKeepsMap ==
    [][ ~use_deepsort
        => \A image \in PipeFrames, detections \in DetLists :
              (GreedyRaises(detections) /\ UpdateCall(image, detections))
              => /\ trk_result'.status = "returned"
                 /\ DOMAIN trk_result'.value = DOMAIN tracks
                 /\ \A id \in DOMAIN tracks :
                       /\ trk_result'.value[id].bbox = tracks[id].bbox
                       /\ trk_result'.value[id].confidence = tracks[id].confidence
                       /\ trk_result'.value[id].age = tracks[id].age ]_vars

C30_ClassifyOverlapsDetection ==
    (co.classify # "none" /\ co.update = "done" /\ trk_result.status = "returned")
    => co.classify # "created"

\* C31: in every process_frame call the tracker's update() starts only
\* after detect() of the same frame has returned, and it is run on exactly
\* the list that detect() returned for that frame; the two never overlap.
C31_TrackingAfterDetection ==
    [][ /\ co'.update # "none" => co'.detect = "done"
        /\ ~(co'.detect = "running" /\ co'.update = "running")
        /\ (pc = "in_update" /\ pc' # "in_update")
           => /\ det_log.frame = frame_count
              /\ \E ds \in DsOutcomes \cup {"unused"} :
                    trk_result' = UpdateOutcome(
                        Update(use_deepsort, tracks, next_id, max_age, co.frame,
                               det_log.detections, ds),
                        det_log.detections) ]_vars

\* update() has returned a track for the one box that detect() returned for
\* the same frame
C31_Witness ==
    /\ co.detect = "done" /\ co.update = "done"
    /\ det_log.frame = frame_count
    /\ Len(det_log.detections) = 1
    /\ trk_result.status = "returned"
    /\ \E id \in DOMAIN trk_result.value : trk_result.value[id].bbox = det_log.detections[1].bbox

\* C32: every inference call made while a frame is processed (detector,
\* tracker, classifier) is a suspension point: while the inference computes,
\* process_frame has yielded and the event loop can handle other events.
C32_InferenceYields ==
    (co.detect = "running" \/ co.update = "running" \/ co.classify = "running")
    => Suspended(pc)

(***************************************************************************)
(* Frame accounting and the detector's output                              *)
(***************************************************************************)
\* one non-empty frame was counted and fed to the ring buffer exactly once
FedOnce ==
    /\ frame_count' = frame_count + 1
    /\ added' = Append(added, op'.args[1])
    /\ frame_buffer' = SubSeq(added', Max2(1, Len(added') - num_frames + 1), Len(added'))
    /\ Len(frame_buffer') = Min2(frame_count', num_frames)

\* C33: every processed non-empty frame is appended to the ring buffer
\* exactly once and counted exactly once, whatever the gate, the detector
\* and the tracker do, so that after the call the buffer holds
\* min(frame_count, num_frames) frames and the call's result carries a frame
\* id larger than every earlier one.
C33_FedAndCountedOnce ==
    [][ /\ EnteredFrame(op') => FedOnce
        /\ ProcessedFrame(op')
           => /\ result'.status = "returned"
              /\ result'.frame_id = frame_count'
              /\ (result.status = "returned" => result'.frame_id > result.frame_id) ]_vars

\* C34: the list detect() returns has passed non-maximum suppression: every
\* detection has confidence >= the confidence threshold and no two of them
\* overlap with an IoU above 0.45.
C34_Suppressed ==
    op.name = "detect"
    => /\ \A j \in 1..Len(det_log.detections) :
             det_log.detections[j].confidence >= YOLO_CONF_THRESHOLD
       /\ \A i \in 1..Len(det_log.detections), j \in 1..Len(det_log.detections) :
             i < j => LET r == _calculate_iou(det_log.detections[i].bbox,
                                              det_log.detections[j].bbox)
                      IN r.raises \/ ~RatGt(r, [num |-> 45, den |-> 100])

(***************************************************************************)
(* The video processing loop                                               *)
(***************************************************************************)
\* the process_frame call a loop made has just ended
IsFrame(o) == IsProcessFrameCall(o) /\ o.args[2] \in 1..MaxLoops
\* the loop body has just handled the result of a process_frame call
ActiveLoops == { i \in 1..Len(loops) : Active(loops[i]) }

\* C35: a failure while one frame is handled in the processing loop does
\* not end the stream: the loop that handled it is still running and waits
\* for the next frame.
C35_FailureKeepsStream ==
    (IsFrame(op) /\ result.status = "raised")
    => /\ loops[op.args[2]].pc = "wait_frame"
       /\ loops[op.args[2]].camera = "running"

\* C36: whatever the interleaving of start() and stop() calls, at most one
\* processing loop is active at any time, and so no two process_frame calls
\* on the shared pipeline overlap.
C36_SingleLoop ==
    /\ Cardinality(ActiveLoops) <= 1
    /\ Cardinality({ i \in 1..Len(loops) : loops[i].pc = "processing" }) <= 1

\* C37: after stop() is called on a running processor the loop eventually
\* exits, its camera is stopped, is_running is false and stop() returns.
C37_StopTerminates ==
    \A i \in 1..MaxLoops :
       (i \in stopping)
       ~> (/\ i \notin stopping
           /\ i \in 1..Len(loops)
           /\ loops[i].pc = "done"
           /\ loops[i].camera = "stopped"
           /\ ~is_running)

\* a classification run of the frame just processed failed
ClassifyFailedOnFrame ==
    /\ ProcessedFrame(op)
    /\ cls_log # << >>
    /\ cls_log[Len(cls_log)].frame = frame_count
    /\ cls_log[Len(cls_log)].failed
\* C39: when the classification run of a frame fails, the result
\* process_frame returns for that frame reports no violence and score 0 and
\* carries the classifier's error annotation.
C39_DegradedResult ==
    ClassifyFailedOnFrame
    => /\ result.status = "returned"
       /\ ~result.violence_detected
       /\ result.violence_score = 0
       /\ "error" \in result.fields
====
